---- MODULE Spec2Model ----
(***************************************************************************)
(* A model of the AP2 financial-report extraction pipeline                 *)
(* (src/pdf_parser_enhanced.py, src/ap2_scraper.py, src/config.py).        *)
(*                                                                         *)
(* Python strings are modelled as sequences of one-character strings, so   *)
(* that strip, replace, split, int() and the regular expressions of the    *)
(* source are computed character by character.  None is the Python None.   *)
(***************************************************************************)
EXTENDS Integers, Sequences, FiniteSets, TLC

VARIABLES
    pc,          \* position of the modelled run
    arg,         \* calls on bounded inputs: the argument of the call
    columns,     \* number parsers: the column values a statement line was printed from
    result,      \* calls on bounded inputs: the value returned by the call
    ncols,       \* df.shape[1] of the grid being parsed
    idx,         \* number of rows of the grid processed so far
    row,         \* the row processed last: its label cell and its value cell
    data,        \* the dict of extracted fields
    in_assets_section,
    assets_found,
    liabilities_found,
    section,     \* the section header branch taken last (ASSETS at the start)
    derivSeen,   \* log: section and value of each numeric 'derivative instruments' row
    download_folder, \* main: the latest download folder, None when there is none
    pdf_files,   \* main: the paths glob returns, in its order
    disk,        \* main: what the libraries read from each path
    file_idx,    \* main: number of files the loop has taken
    year,        \* main: the year of the file being processed
    df,          \* parse_balance_sheet_adaptive: the grid extracted
    all_data,    \* main: the dict year -> data, in insertion order
    returned,    \* log: year and dict returned for each file processed
    table,       \* create_output: the DataFrame, None before it is built
    check1,      \* validate_balance_sheet: outcome of the assets check
    check2,      \* validate_balance_sheet: outcome of the fund capital check
    calls,       \* log: the table strategies run for the file being processed
    returncode,  \* the exit status of the parser process, None while it runs
    pipeline     \* orchestrator: what it reports for the parser step

numVars == <<arg, columns, result>>

tableVars == <<ncols, idx, row, data, in_assets_section, assets_found,
               liabilities_found, section, derivSeen>>

mainVars == <<download_folder, pdf_files, disk, file_idx, year, df, all_data,
              returned, table, check1, check2, calls, returncode, pipeline>>

vars == <<pc, numVars, tableVars, mainVars>>

(***************************************************************************)
(* Bounds of the model                                                     *)
(***************************************************************************)
\* longest string of NumChars given to the number parsers
MaxLen == 5

\* most rows of a grid
MaxRows == 4

\* most PDF files of a download folder
MaxPdfs == 2

\* most pages of a document given to the page finder
MaxPages == 3

\* the tables one detection call finds on a page
MaxTables == 2

\* the fields of the JSON object a model answers with
MaxFields == 2

\* the text lines of a page
MaxLines == 2

\* the greatest absolute value scored
MaxValue == 1000

\* the rows of a Key Ratios table
MaxRatioRows == 2

\* most rows of a grid given whole to parse_balance_sheet_from_table
MaxGridRows == 2

\* most fields of a dict given to create_output of ap2_scraper.py and of
\* pdf_parser.py
MaxItems == 2

(***************************************************************************)
(* Characters and strings                                                  *)
(***************************************************************************)
\* Python values: None, int, float and str objects, and a raised ValueError
None == [t |-> "None"]

ValueError == [t |-> "ValueError"]

IntVal(n) == [t |-> "int", v |-> n]

StrVal(s) == [t |-> "str", s |-> s]

NBSP == "NBSP"

\* the character of code fences
BACKTICK == "BACKTICK"

Digits == {"0", "1", "2", "3", "4", "5", "6", "7", "8", "9"}

DigitVal == [c \in Digits |->
    CASE c = "0" -> 0 [] c = "1" -> 1 [] c = "2" -> 2 [] c = "3" -> 3
      [] c = "4" -> 4 [] c = "5" -> 5 [] c = "6" -> 6 [] c = "7" -> 7
      [] c = "8" -> 8 [] c = "9" -> 9]

\* str.isspace(): the characters str.strip(), int() and the pattern \s skip
White == {" ", NBSP, "\t", "\n"}

SetMin(S) == CHOOSE x \in S : \A y \in S : x <= y

SetMax(S) == CHOOSE x \in S : \A y \in S : x >= y

\* str.strip()
Strip(s) ==
    LET keep == {i \in 1..Len(s) : s[i] \notin White}
    IN  IF keep = {} THEN <<>> ELSE SubSeq(s, SetMin(keep), SetMax(keep))

\* s.replace(c, '') for every character c of cs
Remove(s, cs) ==
    LET Keep(c) == c \notin cs
    IN  SelectSeq(s, Keep)

AllDigits(s) == \A i \in 1..Len(s) : s[i] \in Digits

RECURSIVE ToNat(_)
ToNat(ds) ==
    IF ds = <<>> THEN 0
    ELSE ToNat(SubSeq(ds, 1, Len(ds) - 1)) * 10 + DigitVal[ds[Len(ds)]]

\* int(s) of a str: surrounding whitespace skipped, an optional sign, then
\* decimal digits only; anything else raises ValueError
PyInt(s) ==
    LET t == Strip(s)
        signed == t # <<>> /\ t[1] \in {"-", "+"}
        body == IF signed THEN Tail(t) ELSE t
    IN  IF body = <<>> \/ ~AllDigits(body) THEN ValueError
        ELSE IF signed /\ t[1] = "-" THEN IntVal(0 - ToNat(body))
        ELSE IntVal(ToNat(body))

RECURSIVE StripZeros(_)
StripZeros(fp) ==
    IF fp # <<>> /\ fp[Len(fp)] = "0" THEN StripZeros(SubSeq(fp, 1, Len(fp) - 1))
    ELSE fp

\* float(s) of a str written without exponent: an optional sign, digits with
\* at most one decimal point and at least one digit.  The float is kept as
\* sign, integer part and fraction digits without trailing zeros, so that
\* equal floats are equal values (458.0 = 458.00, -0.0 = 0.0).
PyFloat(s) ==
    LET t == Strip(s)
        signed == t # <<>> /\ t[1] \in {"-", "+"}
        body == IF signed THEN Tail(t) ELSE t
        dots == {i \in 1..Len(body) : body[i] = "."}
        digs == Remove(body, {"."})
        ok == /\ Cardinality(dots) <= 1
              /\ digs # <<>>
              /\ AllDigits(digs)
        ip == IF dots = {} THEN body
              ELSE SubSeq(body, 1, SetMin(dots) - 1)
        fp == IF dots = {} THEN <<>>
              ELSE StripZeros(SubSeq(body, SetMin(dots) + 1, Len(body)))
    IN  IF ~ok THEN ValueError
        ELSE [t |-> "float",
              neg |-> signed /\ t[1] = "-" /\ ~(ToNat(ip) = 0 /\ fp = <<>>),
              int |-> ToNat(ip), frac |-> fp]

\* int(x) of a float: truncation toward zero
FloatToInt(x) == IntVal(IF x.neg THEN 0 - x.int ELSE x.int)

(***************************************************************************)
(* Number parsers                                                          *)
(***************************************************************************)
\* a variant of Cleaned that leaves non-breaking spaces in place
CleanedKeepsNbsp(value_str) == Remove(value_str, {" ", ","})

\* cleaned = value_str.replace(' ', '').replace(',', '').replace('\xa0', '')
Cleaned(value_str) == Remove(value_str, {" ", ",", NBSP})

\* a variant of ConvertCleaned that gives 0 where the conversion fails
ConvertCleanedZero(cleaned, allow_decimal) ==
    LET has_decimal == \E i \in 1..Len(cleaned) : cleaned[i] = "."
    IN  IF has_decimal
        THEN IF PyFloat(cleaned) = ValueError THEN IntVal(0)
             ELSE IF allow_decimal THEN PyFloat(cleaned)
             ELSE FloatToInt(PyFloat(cleaned))
        ELSE IF PyInt(cleaned) = ValueError THEN IntVal(0)
             ELSE PyInt(cleaned)

\* the try block of clean_number_string: float() or int() of the cleaned
\* string, None on ValueError
ConvertCleaned(cleaned, allow_decimal) ==
    LET has_decimal == \E i \in 1..Len(cleaned) : cleaned[i] = "."
    IN  IF has_decimal
        THEN IF PyFloat(cleaned) = ValueError THEN None
             ELSE IF allow_decimal THEN PyFloat(cleaned)
             ELSE FloatToInt(PyFloat(cleaned))
        ELSE IF PyInt(cleaned) = ValueError THEN None
             ELSE PyInt(cleaned)

\* value_str is a str object or None (pd.isna)
clean_number_string(value_str, allow_decimal) ==
    IF value_str = None THEN None
    ELSE IF Strip(value_str.s) = <<>> \/ Strip(value_str.s) = <<"-">> THEN None
    ELSE ConvertCleaned(Cleaned(Strip(value_str.s)), allow_decimal)

\* numbers_part = re.sub(r'^[^0-9-]*', '', line)
numbers_part(line) ==
    LET stop == {i \in 1..Len(line) : line[i] \in Digits \cup {"-"}}
    IN  IF stop = {} THEN <<>> ELSE SubSeq(line, SetMin(stop), Len(line))

\* (?:\s\d{3})* matched greedily from the character after position e:
\* the position of the last character matched
RECURSIVE GroupsEnd(_, _)
GroupsEnd(s, e) ==
    IF /\ e + 4 <= Len(s)
       /\ s[e + 1] \in White
       /\ AllDigits(SubSeq(s, e + 2, e + 4))
    THEN GroupsEnd(s, e + 4)
    ELSE e

\* re.search(r'-?\d{1,3}(?:\s\d{3})*', s).group(): the leftmost match as a
\* sequence of characters, <<>> when there is no match (a match is never empty)
FirstNumberMatch(s) ==
    LET starts == {i \in 1..Len(s) :
                      \/ s[i] \in Digits
                      \/ s[i] = "-" /\ i < Len(s) /\ s[i + 1] \in Digits}
        p == SetMin(starts)
        d == IF s[p] = "-" THEN p + 1 ELSE p
        k == SetMax({n \in 1..3 : d + n - 1 <= Len(s)
                                  /\ AllDigits(SubSeq(s, d, d + n - 1))})
    IN  IF starts = {} THEN <<>>
        ELSE SubSeq(s, p, GroupsEnd(s, d + k - 1))

\* line is a str object
extract_first_value(line) ==
    LET match == FirstNumberMatch(numbers_part(line.s))
        cleaned == Strip(Remove(match, {" ", ","}))
    IN  IF match = <<>> THEN None
        ELSE IF cleaned[1] = "-"
             THEN IF PyInt(Tail(cleaned)) = ValueError THEN None
                  ELSE IntVal(0 - PyInt(Tail(cleaned)).v)
             ELSE IF PyInt(cleaned) = ValueError THEN None
                  ELSE PyInt(cleaned)

(***************************************************************************)
(* Regular expressions of the source, matched as re.search matches them    *)
(***************************************************************************)
UpperLetters ==
    <<"A","B","C","D","E","F","G","H","I","J","K","L","M",
      "N","O","P","Q","R","S","T","U","V","W","X","Y","Z">>

LowerLetters ==
    <<"a","b","c","d","e","f","g","h","i","j","k","l","m",
      "n","o","p","q","r","s","t","u","v","w","x","y","z">>

Range(f) == {f[i] : i \in DOMAIN f}

\* str.lower()
Lower(s) ==
    [i \in 1..Len(s) |->
        IF s[i] \in Range(UpperLetters)
        THEN LowerLetters[CHOOSE j \in 1..26 : UpperLetters[j] = s[i]]
        ELSE s[i]]

\* the characters \w matches
WordChars == Range(UpperLetters) \cup Range(LowerLetters) \cup Digits \cup {"_"}

\* pattern elements: a literal, .*, .?, \s*, \s+, ^, $, (?!\w), (?<!...)
Lit(s) == [k |-> "lit", s |-> s]

AnyStar == [k |-> ".*"]

AnyOpt == [k |-> ".?"]

WsStar == [k |-> "\\s*"]

WsPlus == [k |-> "\\s+"]

Bol == [k |-> "^"]

Eol == [k |-> "$"]

NotWordAhead == [k |-> "(?!\\w)"]

NotBehind(s) == [k |-> "(?<!)", s |-> s]

\* the positions j >= i such that every character of s from i to j - 1 is in cs
RunEnds(s, i, cs) ==
    {j \in i..(Len(s) + 1) : \A n \in i..(j - 1) : s[n] \in cs}

\* the positions at which a match of pattern pat that starts at position i
\* of s can end (the position after its last character)
RECURSIVE MatchEnds(_, _, _)
MatchEnds(pat, s, i) ==
    IF pat = <<>> THEN {i}
    ELSE LET e == Head(pat)
             rest == Tail(pat)
             NotNewline == {s[n] : n \in 1..Len(s)} \ {"\n"}
         IN  CASE e.k = "lit" ->
                    IF /\ i + Len(e.s) - 1 <= Len(s)
                       /\ SubSeq(s, i, i + Len(e.s) - 1) = e.s
                    THEN MatchEnds(rest, s, i + Len(e.s))
                    ELSE {}
               [] e.k = ".*" ->
                    UNION {MatchEnds(rest, s, j) : j \in RunEnds(s, i, NotNewline)}
               [] e.k = ".?" ->
                    UNION {MatchEnds(rest, s, j) :
                              j \in {n \in RunEnds(s, i, NotNewline) : n <= i + 1}}
               [] e.k = "\\s*" ->
                    UNION {MatchEnds(rest, s, j) : j \in RunEnds(s, i, White)}
               [] e.k = "\\s+" ->
                    UNION {MatchEnds(rest, s, j) : j \in RunEnds(s, i, White) \ {i}}
               [] e.k = "^" ->
                    IF i = 1 THEN MatchEnds(rest, s, i) ELSE {}
               [] e.k = "$" ->
                    IF i = Len(s) + 1 \/ (i = Len(s) /\ s[i] = "\n")
                    THEN MatchEnds(rest, s, i)
                    ELSE {}
               [] e.k = "(?!\\w)" ->
                    IF i <= Len(s) /\ s[i] \in WordChars THEN {}
                    ELSE MatchEnds(rest, s, i)
               [] e.k = "(?<!)" ->
                    IF /\ i - Len(e.s) >= 1
                       /\ SubSeq(s, i - Len(e.s), i - 1) = e.s
                    THEN {}
                    ELSE MatchEnds(rest, s, i)

\* re.search(pat, s, re.IGNORECASE) for a lower-case pattern
Search(pat, s) ==
    \E i \in 1..(Len(s) + 1) : MatchEnds(pat, Lower(s), i) # {}

(***************************************************************************)
(* parse_balance_sheet_from_table                                          *)
(***************************************************************************)
EQUITIESANDPARTICIPATIONSUNLISTED == <<"E","Q","U","I","T","I","E","S","A","N","D","P","A","R","T","I","C","I","P","A","T","I","O","N","S","U","N","L","I","S","T","E","D">>

EQUITIESANDPARTICIPATIONSLISTED == <<"E","Q","U","I","T","I","E","S","A","N","D","P","A","R","T","I","C","I","P","A","T","I","O","N","S","L","I","S","T","E","D">>

BONDSANDOTHERFIXEDINCOMESECURITIES == <<"B","O","N","D","S","A","N","D","O","T","H","E","R","F","I","X","E","D","I","N","C","O","M","E","S","E","C","U","R","I","T","I","E","S">>

DERIVATIVEINSTRUMENTS == <<"D","E","R","I","V","A","T","I","V","E","I","N","S","T","R","U","M","E","N","T","S">>

CASHANDBANKBALANCES == <<"C","A","S","H","A","N","D","B","A","N","K","B","A","L","A","N","C","E","S">>

OTHERASSETS == <<"O","T","H","E","R","A","S","S","E","T","S">>

PREPAIDEXPENSESANDACCRUEDINCOME == <<"P","R","E","P","A","I","D","E","X","P","E","N","S","E","S","A","N","D","A","C","C","R","U","E","D","I","N","C","O","M","E">>

TOTALASSETS == <<"T","O","T","A","L","A","S","S","E","T","S">>

DERIVATIVEINSTRUMENTSLIABILITIES == <<"D","E","R","I","V","A","T","I","V","E","I","N","S","T","R","U","M","E","N","T","S","L","I","A","B","I","L","I","T","I","E","S">>

OTHERLIABILITIES == <<"O","T","H","E","R","L","I","A","B","I","L","I","T","I","E","S">>

DEFERREDINCOMEANDACCRUEDEXPENSES == <<"D","E","F","E","R","R","E","D","I","N","C","O","M","E","A","N","D","A","C","C","R","U","E","D","E","X","P","E","N","S","E","S">>

TOTALLIABILITIES == <<"T","O","T","A","L","L","I","A","B","I","L","I","T","I","E","S">>

FUNDCAPITALCARRIEDFORWARD == <<"F","U","N","D","C","A","P","I","T","A","L","C","A","R","R","I","E","D","F","O","R","W","A","R","D">>

NETPAYMENTSTOTHENATIONALPENSIONSYSTEM == <<"N","E","T","P","A","Y","M","E","N","T","S","T","O","T","H","E","N","A","T","I","O","N","A","L","P","E","N","S","I","O","N","S","Y","S","T","E","M">>

NETRESULTFORTHEPERIOD == <<"N","E","T","R","E","S","U","L","T","F","O","R","T","H","E","P","E","R","I","O","D">>

TOTALFUNDCAPITAL == <<"T","O","T","A","L","F","U","N","D","C","A","P","I","T","A","L">>

TOTALFUNDCAPITALANDLIABILITIES == <<"T","O","T","A","L","F","U","N","D","C","A","P","I","T","A","L","A","N","D","L","I","A","B","I","L","I","T","I","E","S">>

\* the keys of field_patterns in the order of the dict literal
FieldOrder ==
    <<EQUITIESANDPARTICIPATIONSUNLISTED,
      EQUITIESANDPARTICIPATIONSLISTED,
      BONDSANDOTHERFIXEDINCOMESECURITIES,
      DERIVATIVEINSTRUMENTS,
      CASHANDBANKBALANCES,
      OTHERASSETS,
      PREPAIDEXPENSESANDACCRUEDINCOME,
      TOTALASSETS,
      DERIVATIVEINSTRUMENTSLIABILITIES,
      OTHERLIABILITIES,
      DEFERREDINCOMEANDACCRUEDEXPENSES,
      TOTALLIABILITIES,
      FUNDCAPITALCARRIEDFORWARD,
      NETPAYMENTSTOTHENATIONALPENSIONSYSTEM,
      NETRESULTFORTHEPERIOD,
      TOTALFUNDCAPITAL,
      TOTALFUNDCAPITALANDLIABILITIES>>

field_patterns ==
    \* ^\s*unlisted\s*$
    \* non-listed
    \* equities.*unlisted
    EQUITIESANDPARTICIPATIONSUNLISTED :> <<<<Bol, WsStar, Lit(<<"u","n","l","i","s","t","e","d">>), WsStar, Eol>>,
        <<Lit(<<"n","o","n","-","l","i","s","t","e","d">>)>>,
        <<Lit(<<"e","q","u","i","t","i","e","s">>), AnyStar, Lit(<<"u","n","l","i","s","t","e","d">>)>>>> @@
    \* ^\s*listed\s*$
    \* (?<!un)listed
    \* equities.*listed
    EQUITIESANDPARTICIPATIONSLISTED :> <<<<Bol, WsStar, Lit(<<"l","i","s","t","e","d">>), WsStar, Eol>>,
        <<NotBehind(<<"u","n">>), Lit(<<"l","i","s","t","e","d">>)>>,
        <<Lit(<<"e","q","u","i","t","i","e","s">>), AnyStar, Lit(<<"l","i","s","t","e","d">>)>>>> @@
    \* bonds.*fixed.?income
    \* fixed.?income.*securities
    BONDSANDOTHERFIXEDINCOMESECURITIES :> <<<<Lit(<<"b","o","n","d","s">>), AnyStar, Lit(<<"f","i","x","e","d">>), AnyOpt, Lit(<<"i","n","c","o","m","e">>)>>,
        <<Lit(<<"f","i","x","e","d">>), AnyOpt, Lit(<<"i","n","c","o","m","e">>), AnyStar, Lit(<<"s","e","c","u","r","i","t","i","e","s">>)>>>> @@
    \* ^\s*derivative instruments\s*$
    DERIVATIVEINSTRUMENTS :> <<<<Bol, WsStar, Lit(<<"d","e","r","i","v","a","t","i","v","e"," ","i","n","s","t","r","u","m","e","n","t","s">>), WsStar, Eol>>>> @@
    \* cash.*bank
    \* cash and bank balances
    CASHANDBANKBALANCES :> <<<<Lit(<<"c","a","s","h">>), AnyStar, Lit(<<"b","a","n","k">>)>>,
        <<Lit(<<"c","a","s","h"," ","a","n","d"," ","b","a","n","k"," ","b","a","l","a","n","c","e","s">>)>>>> @@
    \* ^\s*other assets\s*$
    \* other assets(?!\w)
    OTHERASSETS :> <<<<Bol, WsStar, Lit(<<"o","t","h","e","r"," ","a","s","s","e","t","s">>), WsStar, Eol>>,
        <<Lit(<<"o","t","h","e","r"," ","a","s","s","e","t","s">>), NotWordAhead>>>> @@
    \* prepaid.*accrued.*income
    PREPAIDEXPENSESANDACCRUEDINCOME :> <<<<Lit(<<"p","r","e","p","a","i","d">>), AnyStar, Lit(<<"a","c","c","r","u","e","d">>), AnyStar, Lit(<<"i","n","c","o","m","e">>)>>>> @@
    \* ^\s*total\s+assets\s*$
    \* total assets(?!\w)
    TOTALASSETS :> <<<<Bol, WsStar, Lit(<<"t","o","t","a","l">>), WsPlus, Lit(<<"a","s","s","e","t","s">>), WsStar, Eol>>,
        <<Lit(<<"t","o","t","a","l"," ","a","s","s","e","t","s">>), NotWordAhead>>>> @@
    \* ^\s*derivative instruments\s*$
    DERIVATIVEINSTRUMENTSLIABILITIES :> <<<<Bol, WsStar, Lit(<<"d","e","r","i","v","a","t","i","v","e"," ","i","n","s","t","r","u","m","e","n","t","s">>), WsStar, Eol>>>> @@
    \* ^\s*other liabilities\s*$
    \* other liabilities(?!\w)
    OTHERLIABILITIES :> <<<<Bol, WsStar, Lit(<<"o","t","h","e","r"," ","l","i","a","b","i","l","i","t","i","e","s">>), WsStar, Eol>>,
        <<Lit(<<"o","t","h","e","r"," ","l","i","a","b","i","l","i","t","i","e","s">>), NotWordAhead>>>> @@
    \* deferred.*accrued.*expenses
    \* deferred income.*accrued
    DEFERREDINCOMEANDACCRUEDEXPENSES :> <<<<Lit(<<"d","e","f","e","r","r","e","d">>), AnyStar, Lit(<<"a","c","c","r","u","e","d">>), AnyStar, Lit(<<"e","x","p","e","n","s","e","s">>)>>,
        <<Lit(<<"d","e","f","e","r","r","e","d"," ","i","n","c","o","m","e">>), AnyStar, Lit(<<"a","c","c","r","u","e","d">>)>>>> @@
    \* ^\s*total liabilities\s*$
    \* total liabilities(?!\w)
    TOTALLIABILITIES :> <<<<Bol, WsStar, Lit(<<"t","o","t","a","l"," ","l","i","a","b","i","l","i","t","i","e","s">>), WsStar, Eol>>,
        <<Lit(<<"t","o","t","a","l"," ","l","i","a","b","i","l","i","t","i","e","s">>), NotWordAhead>>>> @@
    \* fund capital carried forward
    \* carried.*forward
    FUNDCAPITALCARRIEDFORWARD :> <<<<Lit(<<"f","u","n","d"," ","c","a","p","i","t","a","l"," ","c","a","r","r","i","e","d"," ","f","o","r","w","a","r","d">>)>>,
        <<Lit(<<"c","a","r","r","i","e","d">>), AnyStar, Lit(<<"f","o","r","w","a","r","d">>)>>>> @@
    \* net.*national pension
    \* net payments.*pension
    NETPAYMENTSTOTHENATIONALPENSIONSYSTEM :> <<<<Lit(<<"n","e","t">>), AnyStar, Lit(<<"n","a","t","i","o","n","a","l"," ","p","e","n","s","i","o","n">>)>>,
        <<Lit(<<"n","e","t"," ","p","a","y","m","e","n","t","s">>), AnyStar, Lit(<<"p","e","n","s","i","o","n">>)>>>> @@
    \* net result.*period
    NETRESULTFORTHEPERIOD :> <<<<Lit(<<"n","e","t"," ","r","e","s","u","l","t">>), AnyStar, Lit(<<"p","e","r","i","o","d">>)>>>> @@
    \* ^\s*total fund capital\s*$
    \* total fund capital(?!\w)
    TOTALFUNDCAPITAL :> <<<<Bol, WsStar, Lit(<<"t","o","t","a","l"," ","f","u","n","d"," ","c","a","p","i","t","a","l">>), WsStar, Eol>>,
        <<Lit(<<"t","o","t","a","l"," ","f","u","n","d"," ","c","a","p","i","t","a","l">>), NotWordAhead>>>> @@
    \* total fund capital and liabilities
    \* total.*capital.*liabilities
    TOTALFUNDCAPITALANDLIABILITIES :> <<<<Lit(<<"t","o","t","a","l"," ","f","u","n","d"," ","c","a","p","i","t","a","l"," ","a","n","d"," ","l","i","a","b","i","l","i","t","i","e","s">>)>>,
        <<Lit(<<"t","o","t","a","l">>), AnyStar, Lit(<<"c","a","p","i","t","a","l">>), AnyStar, Lit(<<"l","i","a","b","i","l","i","t","i","e","s">>)>>>>

EmptyDict == <<>>

\* field_name = str(row.iloc[0]).strip().lower() if not pd.isna(row.iloc[0]) else ""
FieldName(label) == IF label = None THEN <<>> ELSE Lower(Strip(label.s))

HeaderAssets == <<"a","s","s","e","t","s">>

HeaderLiabilities == <<"l","i","a","b","i","l","i","t","i","e","s">>

HeaderFundCapitalAndLiabilities ==
    <<"f","u","n","d"," ","c","a","p","i","t","a","l"," ","a","n","d"," ","l","i","a","b","i","l","i","t","i","e","s">>

HeaderFundCapital == <<"f","u","n","d"," ","c","a","p","i","t","a","l">>

\* lines 409-419: the row is a section header
IsHeader(field_name) ==
    field_name \in {HeaderAssets, HeaderLiabilities,
                    HeaderFundCapitalAndLiabilities, HeaderFundCapital}

\* lines 428-435: some pattern of the field matches the label
PatternMatched(field_key, field_name) ==
    \E n \in 1..Len(field_patterns[field_key]) :
        Search(field_patterns[field_key][n], field_name)

\* a variant of ContextOk whose liability-side test is negated
ContextOkNegated(field_key, in_assets) ==
    /\ ~(field_key = DERIVATIVEINSTRUMENTS /\ ~in_assets)
    /\ ~(field_key = DERIVATIVEINSTRUMENTSLIABILITIES /\ ~in_assets)

\* lines 437-441: context validation for derivative instruments
ContextOk(field_key, in_assets) ==
    /\ ~(field_key = DERIVATIVEINSTRUMENTS /\ ~in_assets)
    /\ ~(field_key = DERIVATIVEINSTRUMENTSLIABILITIES /\ in_assets)

\* label cells of the rows given to the parser
TableLabels ==
    { StrVal(<<"A","s","s","e","t","s">>),
      StrVal(<<"L","i","a","b","i","l","i","t","i","e","s">>),
      StrVal(<<"F","u","n","d"," ","c","a","p","i","t","a","l"," ","a","n","d"," ","l","i","a","b","i","l","i","t","i","e","s">>),
      StrVal(<<"F","u","n","d"," ","c","a","p","i","t","a","l">>),
      StrVal(<<"D","e","r","i","v","a","t","i","v","e"," ","i","n","s","t","r","u","m","e","n","t","s">>),
      StrVal(<<"T","o","t","a","l"," ","f","u","n","d"," ","c","a","p","i","t","a","l">>),
      StrVal(<<"T","o","t","a","l"," ","f","u","n","d"," ","c","a","p","i","t","a","l"," ","a","n","d"," ","l","i","a","b","i","l","i","t","i","e","s">>),
      None }

\* value cells of the rows given to the parser
TableCells ==
    { StrVal(<<"1"," ","0","0","0">>), StrVal(<<"0">>), StrVal(<<"-">>) }

\* label cells of the documents of the model
GridLabels ==
    { StrVal(<<"T","o","t","a","l"," ","a","s","s","e","t","s">>),
      StrVal(<<"T","o","t","a","l"," ","l","i","a","b","i","l","i","t","i","e","s">>),
      StrVal(<<"F","u","n","d"," ","c","a","p","i","t","a","l"," ","c","a","r","r","i","e","d"," ","f","o","r","w","a","r","d">>),
      StrVal(<<"T","o","t","a","l"," ","c","a","p","i","t","a","l"," ","a","n","d"," ","l","i","a","b","i","l","i","t","i","e","s">>),
      StrVal(<<"N","e","t"," ","r","e","s","u","l","t"," ","f","o","r"," ","t","h","e"," ","p","e","r","i","o","d">>),
      StrVal(<<"C","a","s","h"," ","a","n","d"," ","b","a","n","k"," ","b","a","l","a","n","c","e","s">>),
      StrVal(<<"N","o","t","e","s">>) }

\* the labels of the model as the loop sees them (line 403)
TableFieldNames == {FieldName(label) : label \in TableLabels \cup GridLabels}

\* PatternMatched for every key of field_patterns and every label of the
\* model's grids, evaluated once
MatchedKeys ==
    [field_name \in TableFieldNames |->
        {field_key \in Range(FieldOrder) : PatternMatched(field_key, field_name)}]

Matched(field_key, field_name) ==
    IF field_name \in DOMAIN MatchedKeys
    THEN field_key \in MatchedKeys[field_name]
    ELSE PatternMatched(field_key, field_name)

\* a variant of Candidates without the skip of fields already extracted
CandidatesOverwriting(d, in_assets, field_name) ==
    {n \in 1..Len(FieldOrder) :
        /\ Matched(FieldOrder[n], field_name)
        /\ ContextOk(FieldOrder[n], in_assets)}

\* lines 423-451: the positions in FieldOrder of the fields that reach the
\* value extraction for this row
Candidates(d, in_assets, field_name) ==
    {n \in 1..Len(FieldOrder) :
        /\ FieldOrder[n] \notin DOMAIN d
        /\ Matched(FieldOrder[n], field_name)
        /\ ContextOk(FieldOrder[n], in_assets)}

\* a variant of StoreRow that records a matched field whose value cell does
\* not parse as None, so that the field counts as extracted
StoreRowBlocking(d, in_assets, shape1, field_name, cell) ==
    LET cand == Candidates(d, in_assets, field_name)
        value == clean_number_string(cell, FALSE)
    IN  IF cand # {} /\ shape1 >= 2
        THEN (FieldOrder[SetMin(cand)] :> value) @@ d
        ELSE d

\* lines 421-451 for a row that is no header: the dict after the row
StoreRow(d, in_assets, shape1, field_name, cell) ==
    LET cand == Candidates(d, in_assets, field_name)
        value == clean_number_string(cell, FALSE)
    IN  IF cand # {} /\ shape1 >= 2 /\ value # None
        THEN (FieldOrder[SetMin(cand)] :> value) @@ d
        ELSE d

\* a variant of ParseRow that takes every label holding the word
\* 'liabilities' for the liabilities header
ParseRowHeaderContained(st, shape1, r) ==
    LET field_name == FieldName(r.label)
    IN  IF field_name = <<>> THEN st
        ELSE IF field_name = HeaderAssets
        THEN [st EXCEPT !.in_assets_section = TRUE, !.assets_found = TRUE,
                        !.section = "ASSETS"]
        ELSE IF \E i \in 1..(Len(field_name) - Len(HeaderLiabilities) + 1) :
                    SubSeq(field_name, i, i + Len(HeaderLiabilities) - 1) = HeaderLiabilities
        THEN [st EXCEPT !.in_assets_section = FALSE, !.liabilities_found = TRUE,
                        !.section = "LIABILITIES"]
        ELSE IF field_name = HeaderFundCapital
        THEN [st EXCEPT !.in_assets_section = FALSE, !.section = "FUND_CAPITAL"]
        ELSE [st EXCEPT !.data = StoreRow(st.data, st.in_assets_section, shape1,
                                          field_name, r.cell)]

\* lines 401-455: one iteration of the loop over df.iterrows(), on the
\* parser state st = [data, in_assets_section, assets_found,
\* liabilities_found, section]
ParseRow(st, shape1, r) ==
    LET field_name == FieldName(r.label)
    IN  IF field_name = <<>> THEN st
        ELSE IF field_name = HeaderAssets
        THEN [st EXCEPT !.in_assets_section = TRUE, !.assets_found = TRUE,
                        !.section = "ASSETS"]
        ELSE IF field_name \in {HeaderLiabilities, HeaderFundCapitalAndLiabilities}
        THEN [st EXCEPT !.in_assets_section = FALSE, !.liabilities_found = TRUE,
                        !.section = "LIABILITIES"]
        ELSE IF field_name = HeaderFundCapital
        THEN [st EXCEPT !.in_assets_section = FALSE, !.section = "FUND_CAPITAL"]
        ELSE [st EXCEPT !.data = StoreRow(st.data, st.in_assets_section, shape1,
                                          field_name, r.cell)]

\* lines 395-398: the parser state before the first row
ParseStart ==
    [data |-> EmptyDict, in_assets_section |-> TRUE, assets_found |-> FALSE,
     liabilities_found |-> FALSE, section |-> "ASSETS"]

\* lines 368-460: the dict returned for a grid with shape1 columns whose
\* rows are rows, starting from parser state st
RECURSIVE ParseRows(_, _, _)
ParseRows(st, shape1, rows) ==
    IF rows = <<>> THEN st.data
    ELSE ParseRows(ParseRow(st, shape1, Head(rows)), shape1, Tail(rows))

\* lines 395-455: the parser state after the rows, starting from st
RECURSIVE ParseStateAfter(_, _, _)
ParseStateAfter(st, shape1, rows) ==
    IF rows = <<>> THEN st
    ELSE ParseStateAfter(ParseRow(st, shape1, Head(rows)), shape1, Tail(rows))

parse_balance_sheet_from_table(grid) ==
    IF grid = None \/ grid.rows = <<>> THEN EmptyDict
    ELSE ParseRows(ParseStart, grid.shape1, grid.rows)

(***************************************************************************)
(* config.OUTPUT_HEADERS and create_output                                 *)
(***************************************************************************)
\* config.py lines 9-31, in the order of the list
OUTPUT_HEADERS ==
    << \* Unnamed: 0
       <<"U","n","n","a","m","e","d",":"," ","0">>,
       \* AP2.FUNDCAPITALCARRIEDFORWARD.LEVEL.NONE.H.1@AP2
       <<"A","P","2",".","F","U","N","D","C","A","P","I","T","A","L","C","A","R","R","I","E","D","F","O","R","W","A","R","D",".","L","E","V","E","L",".","N","O","N","E",".","H",".","1","@","A","P","2">>,
       \* AP2.NETOUTFLOWSTOTHENATIONALPENSIONSYSTEM.FLOW.NONE.H.1@AP2
       <<"A","P","2",".","N","E","T","O","U","T","F","L","O","W","S","T","O","T","H","E","N","A","T","I","O","N","A","L","P","E","N","S","I","O","N","S","Y","S","T","E","M",".","F","L","O","W",".","N","O","N","E",".","H",".","1","@","A","P","2">>,
       \* AP2.TOTAL.FLOW.NONE.H.1@AP2
       <<"A","P","2",".","T","O","T","A","L",".","F","L","O","W",".","N","O","N","E",".","H",".","1","@","A","P","2">>,
       \* AP2.EQUITIESANDPARTICIPATIONSLISTED.FLOW.NONE.H.1@AP2
       <<"A","P","2",".","E","Q","U","I","T","I","E","S","A","N","D","P","A","R","T","I","C","I","P","A","T","I","O","N","S","L","I","S","T","E","D",".","F","L","O","W",".","N","O","N","E",".","H",".","1","@","A","P","2">>,
       \* AP2.EQUITIESANDPARTICIPATIONSUNLISTED.FLOW.NONE.H.1@AP2
       <<"A","P","2",".","E","Q","U","I","T","I","E","S","A","N","D","P","A","R","T","I","C","I","P","A","T","I","O","N","S","U","N","L","I","S","T","E","D",".","F","L","O","W",".","N","O","N","E",".","H",".","1","@","A","P","2">>,
       \* AP2.BONDSANDOTHERFIXEDINCOMESECURITIES.FLOW.NONE.H.1@AP2
       <<"A","P","2",".","B","O","N","D","S","A","N","D","O","T","H","E","R","F","I","X","E","D","I","N","C","O","M","E","S","E","C","U","R","I","T","I","E","S",".","F","L","O","W",".","N","O","N","E",".","H",".","1","@","A","P","2">>,
       \* AP2.DERIVATIVEINSTRUMENTS.FLOW.NONE.H.1@AP2
       <<"A","P","2",".","D","E","R","I","V","A","T","I","V","E","I","N","S","T","R","U","M","E","N","T","S",".","F","L","O","W",".","N","O","N","E",".","H",".","1","@","A","P","2">>,
       \* AP2.CASHANDBANKBALANCES.FLOW.NONE.H.1@AP2
       <<"A","P","2",".","C","A","S","H","A","N","D","B","A","N","K","B","A","L","A","N","C","E","S",".","F","L","O","W",".","N","O","N","E",".","H",".","1","@","A","P","2">>,
       \* AP2.OTHERASSETS.FLOW.NONE.H.1@AP2
       <<"A","P","2",".","O","T","H","E","R","A","S","S","E","T","S",".","F","L","O","W",".","N","O","N","E",".","H",".","1","@","A","P","2">>,
       \* AP2.PREPAIDEXPENSESANDACCRUEDINCOME.FLOW.NONE.H.1@AP2
       <<"A","P","2",".","P","R","E","P","A","I","D","E","X","P","E","N","S","E","S","A","N","D","A","C","C","R","U","E","D","I","N","C","O","M","E",".","F","L","O","W",".","N","O","N","E",".","H",".","1","@","A","P","2">>,
       \* AP2.TOTALASSETS.FLOW.NONE.H.1@AP2
       <<"A","P","2",".","T","O","T","A","L","A","S","S","E","T","S",".","F","L","O","W",".","N","O","N","E",".","H",".","1","@","A","P","2">>,
       \* AP2.DERIVATIVEINSTRUMENTSLIABILITIES.FLOW.NONE.H.1@AP2
       <<"A","P","2",".","D","E","R","I","V","A","T","I","V","E","I","N","S","T","R","U","M","E","N","T","S","L","I","A","B","I","L","I","T","I","E","S",".","F","L","O","W",".","N","O","N","E",".","H",".","1","@","A","P","2">>,
       \* AP2.OTHERLIABILITIES.FLOW.NONE.H.1@AP2
       <<"A","P","2",".","O","T","H","E","R","L","I","A","B","I","L","I","T","I","E","S",".","F","L","O","W",".","N","O","N","E",".","H",".","1","@","A","P","2">>,
       \* AP2.DEFERREDINCOMEANDACCRUEDEXPENSES.FLOW.NONE.H.1@AP2
       <<"A","P","2",".","D","E","F","E","R","R","E","D","I","N","C","O","M","E","A","N","D","A","C","C","R","U","E","D","E","X","P","E","N","S","E","S",".","F","L","O","W",".","N","O","N","E",".","H",".","1","@","A","P","2">>,
       \* AP2.TOTALLIABILITIES.FLOW.NONE.H.1@AP2
       <<"A","P","2",".","T","O","T","A","L","L","I","A","B","I","L","I","T","I","E","S",".","F","L","O","W",".","N","O","N","E",".","H",".","1","@","A","P","2">>,
       \* AP2.FUNDCAPITALCARRIEDFORWARD.FLOW.NONE.H.1@AP2
       <<"A","P","2",".","F","U","N","D","C","A","P","I","T","A","L","C","A","R","R","I","E","D","F","O","R","W","A","R","D",".","F","L","O","W",".","N","O","N","E",".","H",".","1","@","A","P","2">>,
       \* AP2.NETPAYMENTSTOTHENATIONALPENSIONSYSTEM.FLOW.NONE.H.1@AP2
       <<"A","P","2",".","N","E","T","P","A","Y","M","E","N","T","S","T","O","T","H","E","N","A","T","I","O","N","A","L","P","E","N","S","I","O","N","S","Y","S","T","E","M",".","F","L","O","W",".","N","O","N","E",".","H",".","1","@","A","P","2">>,
       \* AP2.NETRESULTFORTHEPERIOD.FLOW.NONE.H.1@AP2
       <<"A","P","2",".","N","E","T","R","E","S","U","L","T","F","O","R","T","H","E","P","E","R","I","O","D",".","F","L","O","W",".","N","O","N","E",".","H",".","1","@","A","P","2">>,
       \* AP2.TOTALFUNDCAPITAL.FLOW.NONE.H.1@AP2
       <<"A","P","2",".","T","O","T","A","L","F","U","N","D","C","A","P","I","T","A","L",".","F","L","O","W",".","N","O","N","E",".","H",".","1","@","A","P","2">>,
       \* AP2.TOTALFUNDCAPITALANDLIABILITIES.FLOW.NONE.H.1@AP2
       <<"A","P","2",".","T","O","T","A","L","F","U","N","D","C","A","P","I","T","A","L","A","N","D","L","I","A","B","I","L","I","T","I","E","S",".","F","L","O","W",".","N","O","N","E",".","H",".","1","@","A","P","2">> >>

\* s.split(sep): the parts of s between the occurrences of the character sep
RECURSIVE Split(_, _)
Split(s, sep) ==
    LET at == {i \in 1..Len(s) : s[i] = sep}
    IN  IF at = {} THEN <<s>>
        ELSE <<SubSeq(s, 1, SetMin(at) - 1)>>
             \o Split(SubSeq(s, SetMin(at) + 1, Len(s)), sep)

LEVEL == <<"L","E","V","E","L">>

\* a variant of HeaderFieldName that takes parts[1] for every header
HeaderFieldNameNoLevel(header) ==
    LET parts == Split(header, ".")
    IN  IF Len(parts) >= 2 THEN StrVal(parts[2]) ELSE None

\* lines 555-561: the field name a header stands for (parts[1], with LEVEL
\* appended for the LEVEL column); None when the header has fewer than 2 parts
HeaderFieldName(header) ==
    LET parts == Split(header, ".")
    IN  IF Len(parts) >= 2
        THEN IF Len(parts) >= 3 /\ parts[3] = LEVEL
             THEN StrVal(parts[2] \o LEVEL)
             ELSE StrVal(parts[2])
        ELSE None

\* HeaderFieldName of every header of OUTPUT_HEADERS[1:], evaluated once
HeaderFields ==
    [header \in Range(Tail(OUTPUT_HEADERS)) |-> HeaderFieldName(header)]

\* dict.get(key): None for a missing key
Get(d, key) == IF key \in DOMAIN d THEN d[key] ELSE None

\* line 546: the key of the year in the row dict
Unnamed0 == <<"U","n","n","a","m","e","d",":"," ","0">>

\* a variant of RowDict whose default for a missing field is 0
RowDictZeroFilled(y, d) ==
    [header \in Range(Tail(OUTPUT_HEADERS)) |->
        IF HeaderFields[header] = None THEN None
        ELSE IF HeaderFields[header].s \in DOMAIN d THEN d[HeaderFields[header].s]
        ELSE IntVal(0)]
    @@ (Unnamed0 :> IntVal(y))

\* lines 546-565: the row dict of one year; the header keys are assigned
\* after the year key
RowDict(y, d) ==
    [header \in Range(Tail(OUTPUT_HEADERS)) |->
        IF HeaderFields[header] = None THEN None
        ELSE Get(d, HeaderFields[header].s)]
    @@ (Unnamed0 :> IntVal(y))

\* line 569: pd.DataFrame(df_data, columns=config.OUTPUT_HEADERS): one row
\* per dict of df_data, its cells taken by column name in the order of the
\* columns, an absent cell where the dict has no such key
DataFrame(df_data, cols) ==
    [columns |-> cols,
     rows |-> [r \in 1..Len(df_data) |->
                  [c \in 1..Len(cols) |-> Get(df_data[r], cols[c])]]]

\* lines 543-569 for the ordered dict all_data, a sequence of [year, data]
\* items in insertion order
OutputTable(items) ==
    DataFrame([r \in 1..Len(items) |-> RowDict(items[r].year, items[r].data)],
              OUTPUT_HEADERS)

(***************************************************************************)
(* extract_key_ratios                                                      *)
(***************************************************************************)
FUNDCAPITALCARRIEDFORWARDLEVEL == <<"F","U","N","D","C","A","P","I","T","A","L","C","A","R","R","I","E","D","F","O","R","W","A","R","D","L","E","V","E","L">>

TOTAL == <<"T","O","T","A","L">>

NETOUTFLOWSTOTHENATIONALPENSIONSYSTEM == <<"N","E","T","O","U","T","F","L","O","W","S","T","O","T","H","E","N","A","T","I","O","N","A","L","P","E","N","S","I","O","N","S","Y","S","T","E","M">>

\* sub in s
Contains(s, sub) ==
    \E i \in 1..(Len(s) - Len(sub) + 1) : SubSeq(s, i, i + Len(sub) - 1) = sub

\* lines 328-344: the key the if/elif chain selects for a label, None when
\* no branch is taken
KeyRatioField(field_name) ==
    IF /\ Contains(field_name, <<"f","u","n","d"," ","c","a","p","i","t","a","l"," ","c","a","r","r","i","e","d"," ","f","o","r","w","a","r","d">>)
       /\ Contains(field_name, <<"s","e","k"," ","b","i","l","l","i","o","n">>)
    THEN StrVal(FUNDCAPITALCARRIEDFORWARDLEVEL)
    ELSE IF /\ Contains(field_name, <<"n","e","t"," ","r","e","s","u","l","t"," ","f","o","r"," ","t","h","e"," ","p","e","r","i","o","d">>)
            /\ Contains(field_name, <<"s","e","k"," ","b","i","l","l","i","o","n">>)
    THEN StrVal(TOTAL)
    ELSE IF /\ Contains(field_name, <<"n","e","t"," ","o","u","t","f","l">>)
            /\ Contains(field_name, <<"n","a","t","i","o","n","a","l"," ","p","e","n","s","i","o","n">>)
    THEN StrVal(NETOUTFLOWSTOTHENATIONALPENSIONSYSTEM)
    ELSE None

\* lines 324-346: one iteration of the loop on acc = [raised, data];
\* row.iloc[1] raises IndexError in a grid of one column
KeyRatioRow(acc, shape1, r) ==
    LET key == KeyRatioField(FieldName(r.label))
        value == clean_number_string(r.cell, TRUE)
    IN  IF acc.raised \/ key = None THEN acc
        ELSE IF shape1 < 2 THEN [acc EXCEPT !.raised = TRUE]
        ELSE IF value # None THEN [acc EXCEPT !.data = (key.s :> value) @@ @]
        ELSE acc

RECURSIVE KeyRatioRows(_, _, _)
KeyRatioRows(acc, shape1, rows) ==
    IF rows = <<>> THEN acc
    ELSE KeyRatioRows(KeyRatioRow(acc, shape1, Head(rows)), shape1, Tail(rows))

\* lines 272-354: ratios is the first table of the Key Ratios page, None
\* when the page or the table is not found; any exception gives {}
extract_key_ratios(ratios) ==
    IF ratios = None THEN EmptyDict
    ELSE LET acc == KeyRatioRows([raised |-> FALSE, data |-> EmptyDict],
                                 ratios.shape1, ratios.rows)
         IN  IF acc.raised THEN EmptyDict ELSE acc.data

\* data.update(key_ratios_data), line 494
Update(d, other) == other @@ d

(***************************************************************************)
(* extract_year_from_filename                                              *)
(***************************************************************************)
\* os.path.basename
Basename(path) ==
    LET at == {i \in 1..Len(path) : path[i] = "/"}
    IN  IF at = {} THEN path ELSE SubSeq(path, SetMax(at) + 1, Len(path))

\* \d{4} matches at position i
FourDigitsAt(s, i) ==
    /\ i >= 1
    /\ i + 3 <= Len(s)
    /\ \A k \in 0..3 : s[i + k] \in Digits

\* s has the literal lit at position i
LitAt(s, i, lit) ==
    /\ i >= 1
    /\ i + Len(lit) - 1 <= Len(s)
    /\ SubSeq(s, i, i + Len(lit) - 1) = lit

\* re.search(r'(\d{4})', s): the positions of group 1, leftmost first
AnyFourDigits(s) == {i \in 1..Len(s) : FourDigitsAt(s, i)}

\* re.search(r'AP2_(\d{4})', s)
Ap2FourDigits(s) ==
    {i + 4 : i \in {j \in 1..Len(s) :
                      LitAt(s, j, <<"A","P","2","_">>) /\ FourDigitsAt(s, j + 4)}}

\* re.search(r'Half.*?(\d{4})', s): after the leftmost 'Half' that can
\* match, the lazy .*? stops at the first four digits; . matches no newline
HalfFourDigits(s) ==
    LET group(i) == {j \in (i + 4)..Len(s) :
                       /\ FourDigitsAt(s, j)
                       /\ \A k \in (i + 4)..(j - 1) : s[k] # "\n"}
        starts == {i \in 1..Len(s) : LitAt(s, i, <<"H","a","l","f">>) /\ group(i) # {}}
    IN  IF starts = {} THEN {} ELSE {SetMin(group(SetMin(starts)))}

\* lines 43-47
YearPatterns(s) == <<AnyFourDigits(s), Ap2FourDigits(s), HalfFourDigits(s)>>

\* int(match.group(1)) of pattern n
MatchedYear(s, n) == ToNat(SubSeq(s, SetMin(YearPatterns(s)[n]), SetMin(YearPatterns(s)[n]) + 3))

\* lines 50-54: pattern n matches and its year is returned
YearAccepted(s, n) ==
    /\ YearPatterns(s)[n] # {}
    /\ 2000 <= MatchedYear(s, n)
    /\ MatchedYear(s, n) <= 2030

\* lines 39-56; now_year is datetime.now().year
extract_year_from_filename(filename, now_year) ==
    LET basename == Basename(filename)
        hits == {n \in 1..3 : YearAccepted(basename, n)}
    IN  IF hits = {} THEN now_year ELSE MatchedYear(basename, SetMin(hits))

(***************************************************************************)
(* validate_balance_sheet                                                  *)
(***************************************************************************)
KeyError == [t |-> "KeyError"]

\* data[key]
Subscript(d, key) == IF key \in DOMAIN d THEN d[key] ELSE KeyError

Abs(x) == IF x < 0 THEN 0 - x ELSE x

\* a variant of Within that excludes the tolerance itself
WithinStrict(diff) == diff < 100

\* lines 515 and 526: diff <= 100
Within(diff) == diff <= 100

\* line 512
Check1Required(d) ==
    /\ TOTALASSETS \in DOMAIN d
    /\ TOTALFUNDCAPITALANDLIABILITIES \in DOMAIN d

\* a variant of Check2Required that does not ask for TOTALLIABILITIES
Check2RequiredLoose(d) ==
    /\ TOTALFUNDCAPITAL \in DOMAIN d
    /\ TOTALFUNDCAPITALANDLIABILITIES \in DOMAIN d

\* line 522
Check2Required(d) ==
    /\ TOTALFUNDCAPITAL \in DOMAIN d
    /\ TOTALLIABILITIES \in DOMAIN d
    /\ TOTALFUNDCAPITALANDLIABILITIES \in DOMAIN d

\* lines 511-519: "skipped" when the check is not evaluated, "raised" when
\* a subscript raises KeyError
Check1(d) ==
    LET assets == Subscript(d, TOTALASSETS)
        actual == Subscript(d, TOTALFUNDCAPITALANDLIABILITIES)
    IN  IF ~Check1Required(d) THEN "skipped"
        ELSE IF KeyError \in {assets, actual} THEN "raised"
        ELSE IF Within(Abs(assets.v - actual.v)) THEN "passed"
        ELSE "failed"

\* lines 521-530
Check2(d) ==
    LET fund == Subscript(d, TOTALFUNDCAPITAL)
        liab == Subscript(d, TOTALLIABILITIES)
        actual == Subscript(d, TOTALFUNDCAPITALANDLIABILITIES)
    IN  IF ~Check2Required(d) THEN "skipped"
        ELSE IF KeyError \in {fund, liab, actual} THEN "raised"
        ELSE IF Within(Abs((fund.v + liab.v) - actual.v)) THEN "passed"
        ELSE "failed"

\* lines 506-533: the dict after the call, the outcome of each check and
\* whether the call raised; the function assigns to no key of data
validate_balance_sheet(d) ==
    [data |-> d,
     check1 |-> Check1(d),
     check2 |-> IF Check1(d) = "raised" THEN "none" ELSE Check2(d),
     raised |-> Check1(d) = "raised" \/ Check2(d) = "raised"]

(***************************************************************************)
(* main: the dict all_data, a sequence of [year, data] in insertion order  *)
(***************************************************************************)
Years(items) == [i \in 1..Len(items) |-> items[i].year]

\* a variant of SetItem that merges the new dict into the one stored
SetItemMerging(items, y, d) ==
    IF \E i \in 1..Len(items) : items[i].year = y
    THEN [i \in 1..Len(items) |->
             IF items[i].year = y
             THEN [year |-> y, data |-> Update(items[i].data, d)]
             ELSE items[i]]
    ELSE Append(items, [year |-> y, data |-> d])

\* line 651: all_data[year] = data; an existing key keeps its position
SetItem(items, y, d) ==
    IF \E i \in 1..Len(items) : items[i].year = y
    THEN [i \in 1..Len(items) |->
             IF items[i].year = y THEN [year |-> y, data |-> d]
             ELSE items[i]]
    ELSE Append(items, [year |-> y, data |-> d])

(***************************************************************************)
(* find_balance_sheet_page_fitz and the selection of the best table        *)
(***************************************************************************)
\* lines 71-88: the score of a page, text = page.get_text().lower()
PageScore(text) ==
    (IF Contains(text, <<"b","a","l","a","n","c","e"," ","s","h","e","e","t">>) THEN 30 ELSE 0)
    + (IF Contains(text, <<"s","e","k"," ","m","i","l","l","i","o","n">>) THEN 15 ELSE 0)
    + (IF Contains(text, <<"t","o","t","a","l"," ","a","s","s","e","t","s">>) /\ Contains(text, <<"l","i","a","b","i","l","i","t","i","e","s">>)
       THEN 20 ELSE 0)
    + (IF Contains(text, <<"f","u","n","d"," ","c","a","p","i","t","a","l">>) THEN 15 ELSE 0)
    + (IF Contains(text, <<"l","i","s","t","e","d">>) /\ Contains(text, <<"u","n","l","i","s","t","e","d">>)
       THEN 10 ELSE 0)
    - (IF Contains(text, <<"k","e","y"," ","r","a","t","i","o","s">>) THEN 15 ELSE 0)
    - (IF Contains(text, <<"t","e","n","-","y","e","a","r"," ","p","e","r","f","o","r","m","a","n","c","e">>) THEN 15 ELSE 0)
    - (IF Contains(text, <<"i","n","c","o","m","e"," ","s","t","a","t","e","m","e","n","t">>) /\ ~Contains(text, <<"b","a","l","a","n","c","e"," ","s","h","e","e","t">>)
       THEN 10 ELSE 0)

\* a variant of Best that keeps the last of the positions with the greatest
\* score
BestLast(scores) ==
    LET top == {i \in 1..Len(scores) :
                  /\ scores[i] > 0
                  /\ \A j \in 1..Len(scores) : scores[j] <= scores[i]}
    IN  IF top = {} THEN 0 ELSE SetMax(top)

\* the first position of seq whose score is the greatest, 0 when no score
\* is above 0: the loops of lines 65-92, 171-193 and 235-257
Best(scores) ==
    LET top == {i \in 1..Len(scores) :
                  /\ scores[i] > 0
                  /\ \A j \in 1..Len(scores) : scores[j] <= scores[i]}
    IN  IF top = {} THEN 0 ELSE SetMin(top)

\* lines 59-100: the 1-indexed page, None when no page scores 30
find_balance_sheet_page_fitz(pages) ==
    LET scores == [i \in 1..Len(pages) |-> PageScore(Lower(pages[i]))]
        best_page == Best(scores)
    IN  IF best_page # 0 /\ scores[best_page] >= 30 THEN IntVal(best_page)
        ELSE None

\* ' '.join(df.astype(str).values.flatten()).lower() over the label and
\* value cells of the grid
RECURSIVE TextContent(_)
TextContent(rows) ==
    IF rows = <<>> THEN <<>>
    ELSE Lower(Head(rows).label.s) \o <<" ">> \o Lower(Head(rows).cell.s)
         \o (IF Len(rows) = 1 THEN <<>> ELSE <<" ">> \o TextContent(Tail(rows)))

\* lines 175-189 and 239-253: the score of a candidate table
TableScore(t) ==
    (IF Len(t.rows) > 10 THEN 10 ELSE 0)
    + (IF t.shape1 >= 3 THEN 10 ELSE 0)
    + (IF Contains(TextContent(t.rows), <<"l","i","s","t","e","d">>) THEN 15 ELSE 0)
    + (IF Contains(TextContent(t.rows), <<"a","s","s","e","t","s">>) THEN 10 ELSE 0)
    + (IF Contains(TextContent(t.rows), <<"l","i","a","b","i","l","i","t","i","e","s">>) THEN 10 ELSE 0)
    + (IF Contains(TextContent(t.rows), <<"f","u","n","d"," ","c","a","p","i","t","a","l">>) THEN 10 ELSE 0)

\* lines 138-208 and 211-269 after the tables of the page are read: the
\* best table when its score reaches 30, None otherwise
BestTable(tables) ==
    LET scores == [i \in 1..Len(tables) |-> TableScore(tables[i])]
        best == Best(scores)
    IN  IF best # 0 /\ scores[best] >= 30 THEN tables[best] ELSE None

\* what a table detection call gives: the tables found, or an exception
Found(tables) == [raises |-> FALSE, tables |-> tables]

Raised == [raises |-> TRUE, tables |-> <<>>]

\* a variant of CamelotTables that adds the stream tables to the lattice ones
CamelotTablesMerged(lattice, stream) ==
    IF lattice.raises \/ stream.raises THEN Raised
    ELSE Found(lattice.tables \o stream.tables)

\* lines 142-164: the tables of the lattice read, those of the stream read
\* when the lattice read found none
CamelotTables(lattice, stream) ==
    IF lattice.raises THEN Raised
    ELSE IF Len(lattice.tables) = 0 THEN stream
    ELSE lattice

\* lines 142-164: the strategies run
CamelotCalls(lattice, stream) ==
    IF ~lattice.raises /\ Len(lattice.tables) = 0 THEN <<"lattice", "stream">>
    ELSE <<"lattice">>

\* a variant of SelectTable without the floor of 30
SelectTableNoFloor(read) ==
    IF read.raises \/ Len(read.tables) = 0 THEN None
    ELSE LET best == Best([i \in 1..Len(read.tables) |-> TableScore(read.tables[i])])
         IN  IF best # 0 THEN read.tables[best] ELSE None

\* lines 166-208 and 223-269: None when the detection raised or found no
\* table, the best table otherwise
SelectTable(read) ==
    IF read.raises \/ Len(read.tables) = 0 THEN None
    ELSE BestTable(read.tables)

\* lines 138-208
extract_balance_sheet_with_camelot(lattice, stream) ==
    SelectTable(CamelotTables(lattice, stream))

\* lines 211-269
extract_balance_sheet_with_pymupdf(found) == SelectTable(found)

(***************************************************************************)
(* The state of main before it starts                                      *)
(***************************************************************************)
MainIdle ==
    /\ download_folder = None
    /\ pdf_files = <<>>
    /\ disk = <<>>
    /\ file_idx = 0
    /\ year = 0
    /\ df = None
    /\ all_data = <<>>
    /\ returned = <<>>
    /\ table = None
    /\ check1 = "none"
    /\ check2 = "none"
    /\ calls = <<>>
    /\ returncode = None
    /\ pipeline = "running"

(***************************************************************************)
(* parse_balance_sheet_from_table, one row at a time                       *)
(***************************************************************************)
TableIdle ==
    /\ ncols = 0
    /\ idx = 0
    /\ row = None
    /\ data = EmptyDict
    /\ in_assets_section = TRUE
    /\ assets_found = FALSE
    /\ liabilities_found = FALSE
    /\ section = "ASSETS"
    /\ derivSeen = <<>>

NumIdle ==
    /\ arg = None
    /\ columns = <<>>
    /\ result = None

InitTable ==
    /\ pc = "rows"
    /\ ncols \in {1, 3}
    /\ idx = 0
    /\ row = None
    /\ data = ParseStart.data
    /\ in_assets_section = ParseStart.in_assets_section
    /\ assets_found = ParseStart.assets_found
    /\ liabilities_found = ParseStart.liabilities_found
    /\ section = ParseStart.section
    /\ derivSeen = <<>>
    /\ NumIdle
    /\ MainIdle

DerivativeLabel == <<"d","e","r","i","v","a","t","i","v","e"," ","i","n","s","t","r","u","m","e","n","t","s">>

\* the loop body of lines 401-455 applied to the next row of the grid
ParseRowStep ==
    /\ pc = "rows"
    /\ idx < MaxRows
    /\ \E label \in TableLabels, cell \in TableCells :
         LET r == [label |-> label, cell |-> cell]
             st == ParseRow([data |-> data,
                             in_assets_section |-> in_assets_section,
                             assets_found |-> assets_found,
                             liabilities_found |-> liabilities_found,
                             section |-> section], ncols, r)
         IN  /\ row' = r
             /\ data' = st.data
             /\ in_assets_section' = st.in_assets_section
             /\ assets_found' = st.assets_found
             /\ liabilities_found' = st.liabilities_found
             /\ section' = st.section
             /\ derivSeen' =
                  IF /\ FieldName(label) = DerivativeLabel
                     /\ ncols >= 2
                     /\ clean_number_string(cell, FALSE) # None
                  THEN Append(derivSeen,
                              [section |-> section,
                               value |-> clean_number_string(cell, FALSE)])
                  ELSE derivSeen
    /\ idx' = idx + 1
    /\ UNCHANGED <<pc, ncols, numVars, mainVars>>

\* line 460: the loop is over, the dict is returned
EndOfTable ==
    /\ pc = "rows"
    /\ pc' = "parsed"
    /\ UNCHANGED <<numVars, tableVars, mainVars>>

NextTable == ParseRowStep \/ EndOfTable

SpecTable == InitTable /\ [][NextTable]_vars

(***************************************************************************)
(* Properties of parse_balance_sheet_from_table                            *)
(***************************************************************************)
\* C1: over any sequence of grid rows each catalogue field is assigned at
\* most once: once a field is populated, no later row changes its value.
C1_FieldAssignedOnce ==
    [][\A f \in Range(FieldOrder) :
          f \in DOMAIN data => (f \in DOMAIN data' /\ data'[f] = data[f])]_vars

\* a populated field has met a later row that matches it and carries
\* another parseable value
C1_Witness ==
    /\ row # None
    /\ ncols >= 2
    /\ clean_number_string(row.cell, FALSE) # None
    /\ \E f \in DOMAIN data :
         /\ Matched(f, FieldName(row.label))
         /\ data[f] # clean_number_string(row.cell, FALSE)

\* C2: when a numeric 'derivative instruments' row appears once while the
\* section is ASSETS and once after a 'liabilities' header, the first value
\* is stored in DERIVATIVEINSTRUMENTS and the second in
\* DERIVATIVEINSTRUMENTSLIABILITIES.
C2_DerivativeBothSides ==
    ( /\ Len(derivSeen) = 2
      /\ derivSeen[1].section = "ASSETS"
      /\ derivSeen[2].section = "LIABILITIES" )
    => /\ DERIVATIVEINSTRUMENTS \in DOMAIN data
       /\ data[DERIVATIVEINSTRUMENTS] = derivSeen[1].value
       /\ DERIVATIVEINSTRUMENTSLIABILITIES \in DOMAIN data
       /\ data[DERIVATIVEINSTRUMENTSLIABILITIES] = derivSeen[2].value

\* both occurrences have been processed, with different values
C2_Witness ==
    /\ Len(derivSeen) = 2
    /\ derivSeen[1].section = "ASSETS"
    /\ derivSeen[2].section = "LIABILITIES"
    /\ derivSeen[1].value # derivSeen[2].value
    /\ DERIVATIVEINSTRUMENTSLIABILITIES \in DOMAIN data

(***************************************************************************)
(* The number parsers on bounded inputs                                    *)
(***************************************************************************)
\* the characters the enumerated strings are made of
NumChars == {"0", "7", "-", " ", ",", NBSP, ".", "x"}

NumStrings == UNION {[1..n -> NumChars] : n \in 0..MaxLen}

\* the values of the docstring of clean_number_string (103-106), and 1,234
SampleCells ==
    { <<"1","8","4"," ","6","7","6">>,
      <<"-","2"," ","4","1","0">>,
      <<"4","6","4","9","7","0">>,
      <<"4","5","8",".","0">>,
      <<"-","2",".","4">>,
      <<"1",",","2","3","4">>,
      <<"1",NBSP,"2","3","4">> }

\* decimal digits of a natural number
RECURSIVE NatDigits(_)
NatDigits(n) ==
    LET d == <<CHOOSE c \in Digits : DigitVal[c] = n % 10>>
    IN  IF n < 10 THEN d ELSE NatDigits(n \div 10) \o d

\* digits in groups of three from the right, the groups separated by sep
RECURSIVE Grouped(_, _)
Grouped(ds, sep) ==
    IF Len(ds) <= 3 THEN ds
    ELSE Grouped(SubSeq(ds, 1, Len(ds) - 3), sep) \o <<sep>>
         \o SubSeq(ds, Len(ds) - 2, Len(ds))

\* a number as a statement prints it: '184 676', '-2 410', '1,234'
FormatNum(n, sep) ==
    IF n < 0 THEN <<"-">> \o Grouped(NatDigits(0 - n), sep)
    ELSE Grouped(NatDigits(n), sep)

RECURSIVE FormatColumns(_, _)
FormatColumns(cols, sep) ==
    IF cols = <<>> THEN <<>>
    ELSE <<" ">> \o FormatNum(Head(cols), sep) \o FormatColumns(Tail(cols), sep)

\* a statement line: the label, then the current-period value and the
\* values of the comparison columns
StatementLine(label, cols, sep) == label \o FormatColumns(cols, sep)

SampleLabels ==
    { <<"L","i","s","t","e","d">>,
      <<"O","t","h","e","r"," ","a","s","s","e","t","s">> }

\* column values of sample statement lines (current period first)
SampleColumns ==
    { <<184676>>, <<184676, 178>>, <<1234, 5678>>, <<5, 12>>, <<957, 1524>>,
      <<0 - 2410, 178>>, <<0 - 4200>>, <<6997, 2188, 5670>> }

InitNum ==
    /\ pc = "input"
    /\ TableIdle
    /\ MainIdle
    /\ result = None
    /\ \/ /\ arg \in {StrVal(s) : s \in NumStrings \cup SampleCells} \cup {None}
          /\ columns = <<>>
       \/ \E label \in SampleLabels, cols \in SampleColumns, sep \in {" ", ","} :
            /\ arg = StrVal(StatementLine(label, cols, sep))
            /\ columns = cols

CallCleanNumberString ==
    /\ pc = "input"
    /\ \E allow_decimal \in BOOLEAN :
         result' = clean_number_string(arg, allow_decimal)
    /\ pc' = "clean_number_string"
    /\ UNCHANGED <<arg, columns, tableVars, mainVars>>

CallExtractFirstValue ==
    /\ pc = "input"
    /\ arg # None
    /\ result' = extract_first_value(arg)
    /\ pc' = "extract_first_value"
    /\ UNCHANGED <<arg, columns, tableVars, mainVars>>

\* parse_balance_sheet_from_table on a grid of one row whose value cell is
\* the string
CallParseCell ==
    /\ pc = "input"
    /\ columns = <<>>
    /\ data' = parse_balance_sheet_from_table(
                  [shape1 |-> 2,
                   rows |-> <<[label |-> StrVal(<<"T","o","t","a","l"," ","a","s","s","e","t","s">>),
                               cell |-> arg]>>])
    /\ pc' = "parse_balance_sheet_from_table"
    /\ UNCHANGED <<numVars, ncols, idx, row, in_assets_section, assets_found,
                   liabilities_found, section, derivSeen, mainVars>>

NextNum == CallCleanNumberString \/ CallExtractFirstValue \/ CallParseCell

SpecNum == InitNum /\ [][NextNum]_vars

(***************************************************************************)
(* Properties of the number parsers                                        *)
(***************************************************************************)
\* an optional leading minus sign, then digit groups separated by spaces,
\* commas or non-breaking spaces
GroupedInteger(s) ==
    LET body == IF s # <<>> /\ s[1] = "-" THEN Tail(s) ELSE s
    IN  /\ body # <<>>
        /\ body[1] \in Digits
        /\ body[Len(body)] \in Digits
        /\ \A i \in 1..Len(body) : body[i] \in Digits \cup {" ", ",", NBSP}

\* the natural number the digits of s spell, read left to right with the
\* digits seen so far in acc
RECURSIVE Spell(_, _)
Spell(s, acc) ==
    IF s = <<>> THEN acc
    ELSE IF Head(s) \in Digits THEN Spell(Tail(s), 10 * acc + DigitVal[Head(s)])
    ELSE Spell(Tail(s), acc)

SpelledInteger(s) == IF s[1] = "-" THEN 0 - Spell(s, 0) ELSE Spell(s, 0)

\* C9: clean_number_string maps every string made of an optional leading
\* minus sign and digit groups separated by spaces, commas or non-breaking
\* spaces to the signed integer its digits spell.
C9_GroupedIntegerParsed ==
    (pc = "clean_number_string" /\ arg # None /\ GroupedInteger(arg.s))
        => result = IntVal(SpelledInteger(arg.s))

\* '-2 410' has been parsed to -2410
C9_Witness ==
    /\ pc = "clean_number_string"
    /\ arg = StrVal(<<"-","2"," ","4","1","0">>)
    /\ result = IntVal(0 - 2410)

\* C10: extract_first_value applied to a statement line returns the first
\* number after the label (the current-period column) with its thousands
\* groups joined, and ignores the comparison columns.
C10_FirstColumnReturned ==
    (pc = "extract_first_value" /\ columns # <<>>)
        => result = IntVal(columns[1])

\* the string has no digit
NoDigit(s) == \A i \in 1..Len(s) : s[i] \notin Digits

\* C11: clean_number_string and extract_first_value return None, not 0, for
\* a string without digits, and parse_balance_sheet_from_table leaves the
\* field absent for such a value cell, while a value cell that reads '0' is
\* recorded as the value 0.
C11_AbsentIsNotZero ==
    /\ (pc \in {"clean_number_string", "extract_first_value"}
          /\ arg # None /\ NoDigit(arg.s))
         => result = None
    /\ (pc = "parse_balance_sheet_from_table" /\ arg # None /\ NoDigit(arg.s))
         => TOTALASSETS \notin DOMAIN data
    /\ (pc = "parse_balance_sheet_from_table" /\ arg # None
          /\ Strip(arg.s) = <<"0">>)
         => (TOTALASSETS \in DOMAIN data /\ data[TOTALASSETS] = IntVal(0))

\* clean_number_string was given letters only
C11_Witness ==
    /\ pc = "clean_number_string"
    /\ arg = StrVal(<<"x", "x">>)
    /\ result = None

(***************************************************************************)
(* Documents of the model                                                  *)
(***************************************************************************)
Row(label, cell) == [label |-> StrVal(label), cell |-> StrVal(cell)]

\* the balance sheet of the 2020 half-year report (src/verify_2020.py), with
\* the cell of its last row
BalanceGrid(total) ==
    [shape1 |-> 3,
     rows |-> << Row(<<"A","s","s","e","t","s">>, <<>>),
               Row(<<"D","e","r","i","v","a","t","i","v","e"," ","i","n","s","t","r","u","m","e","n","t","s">>, <<"6"," ","9","9","7">>),
               Row(<<"T","o","t","a","l"," ","a","s","s","e","t","s">>, <<"3","6","2"," ","4","5","1">>),
               Row(<<"F","u","n","d"," ","c","a","p","i","t","a","l"," ","a","n","d"," ","l","i","a","b","i","l","i","t","i","e","s">>, <<>>),
               Row(<<"L","i","a","b","i","l","i","t","i","e","s">>, <<>>),
               Row(<<"D","e","r","i","v","a","t","i","v","e"," ","i","n","s","t","r","u","m","e","n","t","s">>, <<"2"," ","1","8","8">>),
               Row(<<"T","o","t","a","l"," ","l","i","a","b","i","l","i","t","i","e","s">>, <<"4"," ","5","6","3">>),
               Row(<<"F","u","n","d"," ","c","a","p","i","t","a","l">>, <<>>),
               Row(<<"F","u","n","d"," ","c","a","p","i","t","a","l"," ","c","a","r","r","i","e","d"," ","f","o","r","w","a","r","d">>, <<"3","8","1"," ","3","5","0">>),
               Row(<<"T","o","t","a","l"," ","f","u","n","d"," ","c","a","p","i","t","a","l">>, <<"3","5","7"," ","8","8","8">>),
               Row(<<"T","o","t","a","l"," ","f","u","n","d"," ","c","a","p","i","t","a","l"," ","a","n","d"," ","l","i","a","b","i","l","i","t","i","e","s">>, total) >>]

BalancedGrid == BalanceGrid(<<"3","6","2"," ","4","5","1">>)

\* the last row is 150 above total assets and above fund capital plus
\* liabilities
UnbalancedGrid == BalanceGrid(<<"3","6","2"," ","6","0","1">>)

\* a grid with one field
SmallGrid ==
    [shape1 |-> 3,
     rows |-> << Row(<<"A","s","s","e","t","s">>, <<>>),
               Row(<<"T","o","t","a","l"," ","a","s","s","e","t","s">>, <<"1"," ","0","0","0">>),
               Row(<<"F","u","n","d"," ","c","a","p","i","t","a","l"," ","a","n","d"," ","l","i","a","b","i","l","i","t","i","e","s">>, <<>>) >>]

\* a table that is no balance sheet
LowScoreGrid == [shape1 |-> 2, rows |-> << Row(<<"N","o","t","e","s">>, <<"1"," ","0","0","0">>) >>]

\* the Key Ratios table of the 2020 half-year report
RatioTable ==
    [shape1 |-> 3,
     rows |-> << Row(<<"F","u","n","d"," ","c","a","p","i","t","a","l"," ","c","a","r","r","i","e","d"," ","f","o","r","w","a","r","d",","," ","S","E","K"," ","b","i","l","l","i","o","n">>, <<"3","5","7",".","9">>),
               Row(<<"N","e","t"," ","o","u","t","f","l","o","w","s"," ","t","o"," ","t","h","e"," ","n","a","t","i","o","n","a","l"," ","p","e","n","s","i","o","n"," ","s","y","s","t","e","m",","," ","S","E","K"," ","b","i","l","l","i","o","n">>, <<"-","4",".","2">>),
               Row(<<"N","e","t"," ","r","e","s","u","l","t"," ","f","o","r"," ","t","h","e"," ","p","e","r","i","o","d",","," ","S","E","K"," ","b","i","l","l","i","o","n">>, <<"-","1","9",".","3">>) >>]

\* a Key Ratios table of one column: row.iloc[1] raises IndexError
OneColumnRatioTable ==
    [shape1 |-> 1,
     rows |-> << Row(<<"F","u","n","d"," ","c","a","p","i","t","a","l"," ","c","a","r","r","i","e","d"," ","f","o","r","w","a","r","d",","," ","S","E","K"," ","b","i","l","l","i","o","n">>, <<>>) >>]

BalancePage == <<"B","a","l","a","n","c","e"," ","s","h","e","e","t"," ","S","E","K"," ","m","i","l","l","i","o","n"," ","T","o","t","a","l"," ","a","s","s","e","t","s"," ","L","i","a","b","i","l","i","t","i","e","s"," ","F","u","n","d"," ","c","a","p","i","t","a","l">>

SummaryPage == <<"K","e","y"," ","r","a","t","i","o","s"," ","I","n","c","o","m","e"," ","s","t","a","t","e","m","e","n","t">>

\* what the libraries read from a document: whether fitz.open opens it,
\* the text of its pages, what Camelot finds on the balance sheet page in
\* lattice and in stream mode, what PyMuPDF finds there, and the first table
\* of its Key Ratios page (None when there is none)
Content(pages, lattice, stream, pymupdf, ratios) ==
    [opens |-> TRUE, pages |-> pages, lattice |-> lattice, stream |-> stream,
     pymupdf |-> pymupdf, ratios |-> ratios]

\* a file that fitz.open cannot open
Unreadable == [Content(<<>>, Raised, Raised, Raised, None) EXCEPT !.opens = FALSE]

SampleContents ==
    { Content(<<SummaryPage, BalancePage>>, Found(<<BalancedGrid>>),
              Found(<<>>), Found(<<>>), RatioTable),
      Content(<<BalancePage>>, Found(<<>>), Found(<<>>),
              Found(<<UnbalancedGrid>>), None),
      Content(<<BalancePage>>, Found(<<>>), Found(<<LowScoreGrid, SmallGrid>>),
              Found(<<>>), OneColumnRatioTable),
      Content(<<BalancePage>>, Found(<<LowScoreGrid>>), Found(<<BalancedGrid>>),
              Raised, RatioTable),
      Content(<<SummaryPage>>, Found(<<BalancedGrid>>), Found(<<>>),
              Found(<<>>), RatioTable),
      Unreadable }

\* glob.glob('downloads/*'): the latest download folder
DownloadFolder == <<"d","o","w","n","l","o","a","d","s","/","2","0","2","5","1","1","0","4","_","1","0","1","5","0","0">>

SampleNames ==
    { <<"A","P","2","_","2","0","2","3",".","p","d","f">>,
      <<"A","P","2","_","2","0","2","4",".","p","d","f">>,
      <<"H","a","l","f","-","y","e","a","r","-","R","e","p","o","r","t","-","2","0","2","3",".","p","d","f">>,
      <<"r","e","p","o","r","t",".","p","d","f">> }

\* os.path.join(download_folder, name)
Join(folder, name) == folder \o <<"/">> \o name

\* datetime.now().year of the run
NowYears == {2024, 2026}

\* the sequences of at most n distinct elements of S
DistinctSeqs(S, n) ==
    {s \in UNION {[1..k -> S] : k \in 0..n} :
        \A i, j \in 1..Len(s) : i # j => s[i] # s[j]}

(***************************************************************************)
(* find_balance_sheet_page_fitz on bounded documents                       *)
(***************************************************************************)
\* page texts with the scores 80, 80, 45, 30, 40, 15 and -25
SamplePages ==
    { BalancePage,
      <<"F","u","n","d"," ","c","a","p","i","t","a","l"," ","T","o","t","a","l"," ","a","s","s","e","t","s"," ","a","n","d"," ","l","i","a","b","i","l","i","t","i","e","s",","," ","S","E","K"," ","m","i","l","l","i","o","n"," ","B","a","l","a","n","c","e"," ","s","h","e","e","t">>,
      <<"B","a","l","a","n","c","e"," ","s","h","e","e","t",","," ","S","E","K"," ","m","i","l","l","i","o","n">>,
      <<"B","a","l","a","n","c","e"," ","s","h","e","e","t">>,
      <<"N","o","t","e","s"," ","t","o"," ","t","h","e"," ","b","a","l","a","n","c","e"," ","s","h","e","e","t"," ","L","i","s","t","e","d"," ","a","n","d"," ","u","n","l","i","s","t","e","d"," ","e","q","u","i","t","i","e","s"," ","I","n","c","o","m","e"," ","s","t","a","t","e","m","e","n","t"," ","K","e","y"," ","r","a","t","i","o","s"," ","F","u","n","d"," ","c","a","p","i","t","a","l">>,
      <<"F","u","n","d"," ","c","a","p","i","t","a","l">>,
      SummaryPage }

\* the documents of at most MaxPages pages
InitPages ==
    /\ pc = "pages"
    /\ arg \in UNION {[1..n -> SamplePages] : n \in 0..MaxPages}
    /\ columns = <<>>
    /\ result = None
    /\ TableIdle
    /\ MainIdle

CallFindPage ==
    /\ pc = "pages"
    /\ result' = find_balance_sheet_page_fitz(arg)
    /\ pc' = "find_balance_sheet_page_fitz"
    /\ UNCHANGED <<arg, columns, tableVars, mainVars>>

NextPages == CallFindPage

SpecPages == InitPages /\ [][NextPages]_vars

\* C12: the page returned is the page whose keyword score is the greatest
\* of the document, provided that score is at least 30 and no page before
\* it has the same score; None is returned exactly when no page scores 30.
C12_BestPageReturned ==
    (pc = "find_balance_sheet_page_fitz") =>
        LET score(i) == PageScore(Lower(arg[i]))
            wins(p) == /\ score(p) >= 30
                       /\ \A j \in 1..Len(arg) : score(j) <= score(p)
                       /\ \A j \in 1..(p - 1) : score(j) # score(p)
        IN  /\ \A p \in 1..Len(arg) : (result = IntVal(p)) <=> wins(p)
            /\ (result = None) <=> (\A j \in 1..Len(arg) : score(j) < 30)
            /\ result \in {None} \cup {IntVal(p) : p \in 1..Len(arg)}

\* two pages share the greatest score and the first of them, which is not
\* the first page, was returned
C12_Witness ==
    /\ pc = "find_balance_sheet_page_fitz"
    /\ Len(arg) = 3
    /\ result = IntVal(2)
    /\ arg[2] # arg[3]
    /\ PageScore(Lower(arg[2])) = PageScore(Lower(arg[3]))
    /\ PageScore(Lower(arg[1])) < PageScore(Lower(arg[2]))

(***************************************************************************)
(* The table extractors on bounded reads                                   *)
(***************************************************************************)
\* SmallGrid read as a table of two columns: its score is 30
ThresholdGrid == [SmallGrid EXCEPT !.shape1 = 2]

\* tables with the scores 50, 50, 30 and 20
SampleTables == {BalancedGrid, UnbalancedGrid, ThresholdGrid, RatioTable}

\* lines 175-189 and 239-253 on each of them
SampleScores == [t \in SampleTables |-> TableScore(t)]

\* what one detection call can give on a page of at most MaxTables tables
Reads == {Raised} \cup {Found(t) : t \in UNION {[1..n -> SampleTables] : n \in 0..MaxTables}}

\* arg[1] is what the first detection call gives (Camelot in lattice mode,
\* PyMuPDF), arg[2] what Camelot gives in stream mode
InitTables ==
    /\ pc = "tables"
    /\ arg \in Reads \X Reads
    /\ columns = <<>>
    /\ result = None
    /\ TableIdle
    /\ MainIdle

CallCamelot ==
    /\ pc = "tables"
    /\ result' = extract_balance_sheet_with_camelot(arg[1], arg[2])
    /\ pc' = "extract_balance_sheet_with_camelot"
    /\ UNCHANGED <<arg, columns, tableVars, mainVars>>

CallPyMuPDF ==
    /\ pc = "tables"
    /\ result' = extract_balance_sheet_with_pymupdf(arg[1])
    /\ pc' = "extract_balance_sheet_with_pymupdf"
    /\ UNCHANGED <<arg, columns, tableVars, mainVars>>

NextTables == CallCamelot \/ CallPyMuPDF

SpecTables == InitTables /\ [][NextTables]_vars

\* C14: each table extractor returns the candidate table whose score is the
\* greatest, the first of them when several share it, and only when that
\* score is at least 30; it returns None when no candidate scores 30, when
\* there is no candidate and when the detection call raised.
C14_BestTableAboveFloor ==
    pc \in {"extract_balance_sheet_with_camelot", "extract_balance_sheet_with_pymupdf"} =>
        LET read == IF pc = "extract_balance_sheet_with_pymupdf" THEN arg[1]
                    ELSE IF arg[1].raises THEN arg[1]
                    ELSE IF arg[1].tables = <<>> THEN arg[2]
                    ELSE arg[1]
            cand == read.tables
            score(i) == SampleScores[cand[i]]
            wins(i) == /\ score(i) >= 30
                       /\ \A j \in 1..Len(cand) : score(j) <= score(i)
                       /\ \A j \in 1..(i - 1) : score(j) # score(i)
        IN  /\ read.raises => result = None
            /\ (result = None) <=> (\A i \in 1..Len(cand) : score(i) < 30)
            /\ (result # None) => \E i \in 1..Len(cand) : wins(i) /\ result = cand[i]

\* the stream read gave two tables of the same greatest score and the first
\* of them was returned
C14_Witness ==
    /\ pc = "extract_balance_sheet_with_camelot"
    /\ arg = <<Found(<<>>), Found(<<UnbalancedGrid, BalancedGrid>>)>>
    /\ result = UnbalancedGrid

(***************************************************************************)
(* llm_extractor.py                                                        *)
(***************************************************************************)
\* the exceptions of this module, all of them subclasses of Exception;
\* json.JSONDecodeError is a subclass of ValueError
TypeError == [t |-> "TypeError"]

OverflowError == [t |-> "OverflowError"]

AttributeError == [t |-> "AttributeError"]

JSONDecodeError == [t |-> "JSONDecodeError"]

IndexError == [t |-> "IndexError"]

Timeout == [t |-> "Timeout"]

HTTPError == [t |-> "HTTPError"]

Exceptions == {ValueError, TypeError, OverflowError, AttributeError,
               JSONDecodeError, KeyError, IndexError, Timeout, HTTPError}

\* JSON values besides int, float, str and None: booleans, lists, objects
\* and the floats inf, -inf and nan
BoolVal(b) == [t |-> "bool", v |-> b]

ListVal == [t |-> "list"]

DictVal(items) == [t |-> "dict", items |-> items]

Inf(neg) == [t |-> "inf", neg |-> neg]

NaN == [t |-> "nan"]

\* s.replace(old, '')
RECURSIVE RemoveAll(_, _)
RemoveAll(s, old) ==
    LET at == {i \in 1..(Len(s) - Len(old) + 1) : LitAt(s, i, old)}
    IN  IF at = {} THEN s
        ELSE SubSeq(s, 1, SetMin(at) - 1)
             \o RemoveAll(SubSeq(s, SetMin(at) + Len(old), Len(s)), old)

\* lines 204-212: the code fences removed, then the text from the first {
\* to the last }
TrimContent(content) ==
    LET bare == Strip(RemoveAll(RemoveAll(content, <<BACKTICK,BACKTICK,BACKTICK,"j","s","o","n">>), <<BACKTICK,BACKTICK,BACKTICK>>))
        open == {i \in 1..Len(bare) : bare[i] = "{"}
        close == {i \in 1..Len(bare) : bare[i] = "}"}
    IN  IF open # {} /\ close # {} /\ SetMax(close) > SetMin(open)
        THEN SubSeq(bare, SetMin(open), SetMax(close))
        ELSE bare

\* what requests.post gives: a raised Timeout, or a response with a status
\* and a body.  The body is no JSON text, a JSON object without the key
\* 'choices', one whose list of choices is empty, or one with the content of
\* the first choice
NotJson == [t |-> "text"]

NoChoices == [t |-> "object"]

EmptyChoices == [t |-> "choices"]

Message(content) == [t |-> "message", content |-> content]

Response(status, body) == [t |-> "response", status |-> status, body |-> body]

\* lines 192-214: the str returned, or the exception raised
call_llm(response) ==
    IF response = Timeout THEN Timeout
    ELSE IF response.status >= 400 /\ response.status < 600 THEN HTTPError
    ELSE IF response.body = NotJson THEN JSONDecodeError
    ELSE IF response.body = NoChoices THEN KeyError
    ELSE IF response.body = EmptyChoices THEN IndexError
    ELSE StrVal(TrimContent(response.body.content))

\* the whitespace of JSON texts
JsonStrip(s) ==
    LET keep == {i \in 1..Len(s) : s[i] \notin {" ", "\t", "\n"}}
    IN  IF keep = {} THEN <<>> ELSE SubSeq(s, SetMin(keep), SetMax(keep))

\* a JSON number written without exponent: -? (0 | [1-9][0-9]*) (. [0-9]+)?
JsonNumber(t) ==
    LET body == IF t # <<>> /\ t[1] = "-" THEN Tail(t) ELSE t
        parts == Split(body, ".")
        ip == parts[1]
    IN  /\ Len(parts) <= 2
        /\ ip # <<>> /\ AllDigits(ip) /\ (Len(ip) > 1 => ip[1] # "0")
        /\ Len(parts) = 2 => (parts[2] # <<>> /\ AllDigits(parts[2]))

\* json.loads of a text that holds no object: a literal, a number, a string
\* without quote or backslash inside, or the empty list
JsonScalar(text) ==
    LET t == JsonStrip(text)
    IN  IF t = <<"n","u","l","l">> THEN None
        ELSE IF t = <<"t","r","u","e">> THEN BoolVal(TRUE)
        ELSE IF t = <<"f","a","l","s","e">> THEN BoolVal(FALSE)
        ELSE IF t = <<"N","a","N">> THEN NaN
        ELSE IF t = <<"I","n","f","i","n","i","t","y">> THEN Inf(FALSE)
        ELSE IF t = <<"-","I","n","f","i","n","i","t","y">> THEN Inf(TRUE)
        ELSE IF t = <<"[","]">> THEN ListVal
        ELSE IF /\ Len(t) >= 2 /\ t[1] = "\"" /\ t[Len(t)] = "\""
                /\ \A i \in 2..(Len(t) - 1) : t[i] \notin {"\"", "\\"}
             THEN StrVal(SubSeq(t, 2, Len(t) - 1))
        ELSE IF JsonNumber(t)
             THEN IF \E i \in 1..Len(t) : t[i] = "." THEN PyFloat(t) ELSE PyInt(t)
        ELSE JSONDecodeError

\* json.loads(text) for the texts of the model: a scalar, or an object of
\* "key": scalar members whose strings hold no comma and no colon; a key
\* written twice keeps its last value
json_loads(text) ==
    LET t == JsonStrip(text)
        inner == SubSeq(t, 2, Len(t) - 1)
        members == Split(inner, ",")
        pair(i) == Split(members[i], ":")
        ok(i) == /\ Len(pair(i)) = 2
                 /\ JsonScalar(pair(i)[1]) \notin Exceptions
                 /\ JsonScalar(pair(i)[1]).t = "str"
                 /\ JsonScalar(pair(i)[2]) \notin Exceptions
        names == {JsonScalar(pair(i)[1]).s : i \in 1..Len(members)}
        last(k) == SetMax({i \in 1..Len(members) : JsonScalar(pair(i)[1]).s = k})
    IN  IF Len(t) >= 2 /\ t[1] = "{" /\ t[Len(t)] = "}"
        THEN IF JsonStrip(inner) = <<>> THEN DictVal(EmptyDict)
             ELSE IF \A i \in 1..Len(members) : ok(i)
             THEN DictVal([k \in names |-> JsonScalar(pair(last(k))[2])])
             ELSE JSONDecodeError
        ELSE JsonScalar(t)

\* float(s) of a str: the words inf, infinity and nan in any case and with
\* an optional sign, or a number
FloatOfStr(s) ==
    LET t == Lower(Strip(s))
        signed == t # <<>> /\ t[1] \in {"-", "+"}
        body == IF signed THEN Tail(t) ELSE t
    IN  IF body \in {<<"i","n","f">>, <<"i","n","f","i","n","i","t","y">>} THEN Inf(signed /\ t[1] = "-")
        ELSE IF body = <<"n","a","n">> THEN NaN
        ELSE PyFloat(s)

\* float(value) of a JSON value
Float(value) ==
    IF value.t = "int"
    THEN [t |-> "float", neg |-> value.v < 0, int |-> Abs(value.v), frac |-> <<>>]
    ELSE IF value.t \in {"float", "inf", "nan"} THEN value
    ELSE IF value.t = "bool"
    THEN [t |-> "float", neg |-> FALSE, int |-> IF value.v THEN 1 ELSE 0, frac |-> <<>>]
    ELSE IF value.t = "str" THEN FloatOfStr(value.s)
    ELSE TypeError

\* line 88: int(float(value)) if value is not None else None
ToInt(value) ==
    IF value = None THEN None
    ELSE IF Float(value) \in Exceptions THEN Float(value)
    ELSE IF Float(value).t = "inf" THEN OverflowError
    ELSE IF Float(value).t = "nan" THEN ValueError
    ELSE FloatToInt(Float(value))

\* line 150: float(value) if value is not None else None
ToFloat(value) == IF value = None THEN None ELSE Float(value)

\* except (ValueError, TypeError) of lines 89 and 151
Skipped(exc) == exc \in {ValueError, TypeError, JSONDecodeError}

\* lines 84-94 and 147-156: the loop over data.items(), where converted[k]
\* is the conversion of the value of key k
Converted(converted) ==
    LET escaped == {k \in DOMAIN converted :
                      converted[k] \in Exceptions /\ ~Skipped(converted[k])}
        kept == {k \in DOMAIN converted : converted[k] \notin Exceptions}
    IN  IF escaped # {} THEN converted[CHOOSE k \in escaped : TRUE]
        ELSE DictVal([k \in kept |-> converted[k]])

\* lines 80-94: the body of the try block
ParsedBalanceSheet(response) ==
    LET content == call_llm(response)
        parsed == json_loads(content.s)
    IN  IF content \in Exceptions THEN content
        ELSE IF parsed \in Exceptions THEN parsed
        ELSE IF parsed.t # "dict" THEN AttributeError
        ELSE Converted([k \in DOMAIN parsed.items |-> ToInt(parsed.items[k])])

\* lines 143-156: the body of the try block
ParsedKeyRatios(response) ==
    LET content == call_llm(response)
        parsed == json_loads(content.s)
    IN  IF content \in Exceptions THEN content
        ELSE IF parsed \in Exceptions THEN parsed
        ELSE IF parsed.t # "dict" THEN AttributeError
        ELSE Converted([k \in DOMAIN parsed.items |-> ToFloat(parsed.items[k])])

\* a variant of Handled for a clause that names the conversion errors only
HandledConversionErrors(exc) ==
    exc \in {ValueError, TypeError, JSONDecodeError}

\* except Exception of lines 96 and 158
Handled(exc) ==
    exc \in Exceptions

\* lines 79-98 and 142-160: what the try statement gives for the outcome of
\* its body, the dict returned or the exception that leaves the method
Try(outcome) ==
    IF outcome \in Exceptions /\ Handled(outcome) THEN DictVal(EmptyDict)
    ELSE outcome

\* LLMExtractor.extract_balance_sheet, lines 35-98
LLMExtractor_extract_balance_sheet(enabled, response) ==
    IF ~enabled THEN DictVal(EmptyDict) ELSE Try(ParsedBalanceSheet(response))

\* LLMExtractor.extract_key_ratios, lines 100-160
LLMExtractor_extract_key_ratios(enabled, response) ==
    IF ~enabled THEN DictVal(EmptyDict) ELSE Try(ParsedKeyRatios(response))

\* the values a model writes for a field
ValueTexts ==
    {<<"1","0","0","0">>,
     <<"-","4",".","2">>,
     <<"\"","1","2",".","5","\"">>,
     <<"\"","N","/","A","\"">>,
     <<"n","u","l","l">>,
     <<"\"","i","n","f","\"">>,
     <<"N","a","N">>,
     <<"[","]">>}

LLMKeys == <<TOTALASSETS, TOTAL, OTHERASSETS, TOTALLIABILITIES>>

\* the JSON object that gives LLMKeys[i] the value values[i]
RECURSIVE ObjectMembers(_, _)
ObjectMembers(values, i) ==
    IF i > Len(values) THEN <<>>
    ELSE (IF i = 1 THEN <<>> ELSE <<",", " ">>)
         \o <<"\"">> \o LLMKeys[i] \o <<"\"", ":", " ">> \o values[i]
         \o ObjectMembers(values, i + 1)

ObjectText(values) == <<"{">> \o ObjectMembers(values, 1) \o <<"}">>

\* the objects of at most MaxFields fields, bare, in a code fence and inside
\* a sentence, and three contents without an object
SampleContents_LLM ==
    LET objects == {ObjectText(v) : v \in UNION {[1..n -> ValueTexts] : n \in 0..MaxFields}}
    IN  objects
        \cup {<<BACKTICK,BACKTICK,BACKTICK,"j","s","o","n","\n">> \o o \o <<"\n",BACKTICK,BACKTICK,BACKTICK>> : o \in objects}
        \cup {<<"H","e","r","e"," ","i","s"," ","t","h","e"," ","J","S","O","N",":"," ">> \o o \o <<" ","D","o","n","e",".">> : o \in objects}
        \cup {<<"I"," ","c","a","n","n","o","t"," ","f","i","n","d"," ","t","h","e"," ","f","i","e","l","d","s">>, <<"[","]">>, <<"{","\"","T","O","T","A","L","\"",":"," ","}">>}

Responses ==
    {Timeout, Response(500, NotJson), Response(429, Message(ObjectText(<<>>))),
     Response(200, NotJson), Response(200, NoChoices), Response(200, EmptyChoices)}
    \cup {Response(200, Message(c)) : c \in SampleContents_LLM}

InitLLM ==
    /\ pc = "llm"
    /\ arg \in [enabled : BOOLEAN, response : Responses]
    /\ columns = <<>>
    /\ result = None
    /\ TableIdle
    /\ MainIdle

CallExtractBalanceSheet ==
    /\ pc = "llm"
    /\ result' = LLMExtractor_extract_balance_sheet(arg.enabled, arg.response)
    /\ pc' = "extract_balance_sheet"
    /\ UNCHANGED <<arg, columns, tableVars, mainVars>>

CallExtractKeyRatios ==
    /\ pc = "llm"
    /\ result' = LLMExtractor_extract_key_ratios(arg.enabled, arg.response)
    /\ pc' = "extract_key_ratios"
    /\ UNCHANGED <<arg, columns, tableVars, mainVars>>

NextLLM == CallExtractBalanceSheet \/ CallExtractKeyRatios

SpecLLM == InitLLM /\ [][NextLLM]_vars

\* the payload of a response that was received and parsed as a JSON object
Payload(response) ==
    IF call_llm(response) \in Exceptions THEN None
    ELSE IF json_loads(call_llm(response).s) \in Exceptions THEN None
    ELSE IF json_loads(call_llm(response).s).t # "dict" THEN None
    ELSE json_loads(call_llm(response).s)

\* C18: extract_balance_sheet and extract_key_ratios of LLMExtractor return
\* a dict whatever the request gives, and the empty dict when the request
\* timed out, the status is an HTTP error or the payload is not parsed as a
\* JSON object.
C18_NeverRaises ==
    pc \in {"extract_balance_sheet", "extract_key_ratios"} =>
        /\ result.t = "dict"
        /\ (\/ arg.response = Timeout
            \/ arg.response.status >= 400
            \/ Payload(arg.response) = None) => DOMAIN result.items = {}

\* the content of the response is a sentence without a JSON object
C18_Witness ==
    /\ pc = "extract_balance_sheet"
    /\ arg.enabled
    /\ arg.response = Response(200, Message(<<"I"," ","c","a","n","n","o","t"," ","f","i","n","d"," ","t","h","e"," ","f","i","e","l","d","s">>))
    /\ result = DictVal(EmptyDict)

\* C19: when the response is parsed as a JSON object, every field whose
\* value is a number is returned with that number (truncated to an int for
\* the balance sheet), whatever the values of the other fields are, and a
\* field whose value is a text that is no number is left out.
C19_OtherFieldsKept ==
    (/\ pc \in {"extract_balance_sheet", "extract_key_ratios"}
     /\ arg.enabled
     /\ Payload(arg.response) # None)
        => /\ result.t = "dict"
           /\ \A k \in DOMAIN Payload(arg.response).items :
                LET value == Payload(arg.response).items[k]
                IN  /\ value.t \in {"int", "float"} =>
                          /\ k \in DOMAIN result.items
                          /\ result.items[k] = IF pc = "extract_balance_sheet"
                                               THEN FloatToInt(Float(value))
                                               ELSE Float(value)
                    /\ (value.t = "str" /\ PyFloat(value.s) = ValueError
                        /\ FloatOfStr(value.s) = ValueError) =>
                          k \notin DOMAIN result.items

(***************************************************************************)
(* smart_extractor.py                                                      *)
(***************************************************************************)
\* lines 19-40: the keywords of a field, <<>> for a field without keywords
FIELD_KEYWORDS(field_name) ==
    IF field_name = FUNDCAPITALCARRIEDFORWARDLEVEL
    THEN <<<<"f","u","n","d"," ","c","a","p","i","t","a","l"," ","b","r","o","u","g","h","t"," ","f","o","r","w","a","r","d">>,
          <<"o","p","e","n","i","n","g"," ","f","u","n","d"," ","c","a","p","i","t","a","l">>,
          <<"f","u","n","d"," ","c","a","p","i","t","a","l"," ","a","t"," ","s","t","a","r","t">>>>
    ELSE IF field_name = NETOUTFLOWSTOTHENATIONALPENSIONSYSTEM
    THEN <<<<"n","e","t"," ","o","u","t","f","l","o","w">>,
          <<"n","e","t"," ","o","u","t","f","l","o","w","s">>,
          <<"n","e","t"," ","f","l","o","w"," ","t","o"," ","p","e","n","s","i","o","n">>,
          <<"p","e","n","s","i","o","n"," ","s","y","s","t","e","m">>,
          <<"n","a","t","i","o","n","a","l"," ","p","e","n","s","i","o","n"," ","s","y","s","t","e","m">>>>
    ELSE IF field_name = TOTAL
    THEN <<<<"r","e","s","u","l","t"," ","a","m","o","u","n","t","e","d"," ","t","o"," ","s","e","k">>,
          <<"n","e","t"," ","r","e","s","u","l","t"," ","f","o","r"," ","t","h","e"," ","p","e","r","i","o","d">>,
          <<"n","e","t"," ","r","e","s","u","l","t"," ","f","o","r"," ","t","h","e"," ","y","e","a","r">>,
          <<"r","e","s","u","l","t"," ","f","o","r"," ","t","h","e"," ","p","e","r","i","o","d",","," ","s","e","k"," ","b","i","l","l","i","o","n">>,
          <<"r","e","s","u","l","t"," ","f","o","r"," ","t","h","e"," ","y","e","a","r",","," ","s","e","k"," ","b","i","l","l","i","o","n">>>>
    ELSE <<>>

\* lines 43-47: (min_val, max_val) of a field with keywords
VALUE_RANGES(field_name) ==
    IF field_name = FUNDCAPITALCARRIEDFORWARDLEVEL THEN <<300, 600>>
    ELSE IF field_name = NETOUTFLOWSTOTHENATIONALPENSIONSYSTEM THEN <<0 - 10, 0>>
    ELSE <<0 - 50, 50>>

\* a span of a text line: its text and the corner bbox[0], bbox[1]
Span(text, x, y) == [text |-> text, x |-> x, y |-> y]

RECURSIVE Flatten(_)
Flatten(seqs) == IF seqs = <<>> THEN <<>> ELSE Head(seqs) \o Flatten(Tail(seqs))

\* the last position of the digits of s that start at position j, j - 1
\* when there is none
DigitsEnd(s, j) ==
    SetMin({k \in j..(Len(s) + 1) : k = Len(s) + 1 \/ s[k] \notin Digits}) - 1

\* -?\d+\.?\d* at position i of s: the position of the last character
\* matched, 0 when there is no match at i
NumberEnd(s, i) ==
    LET first == IF s[i] = "-" THEN i + 1 ELSE i
        whole == DigitsEnd(s, first)
    IN  IF whole < first THEN 0
        ELSE IF whole + 1 <= Len(s) /\ s[whole + 1] = "."
        THEN DigitsEnd(s, whole + 2)
        ELSE whole

\* re.finditer(r'-?\d+\.?\d*', text) from position i on
RECURSIVE NumberMatches(_, _)
NumberMatches(text, i) ==
    IF i > Len(text) THEN <<>>
    ELSE IF NumberEnd(text, i) = 0 THEN NumberMatches(text, i + 1)
    ELSE <<SubSeq(text, i, NumberEnd(text, i))>>
         \o NumberMatches(text, NumberEnd(text, i) + 1)

\* line 139: abs(value) > 0.01 and abs(value) < 10000
Plausible(value) ==
    /\ value.int < 10000
    /\ \/ value.int >= 1
       \/ /\ value.frac # <<>>
          /\ \/ DigitVal[value.frac[1]] >= 1
             \/ /\ Len(value.frac) >= 2
                /\ \/ DigitVal[value.frac[2]] >= 2
                   \/ Len(value.frac) >= 3

\* lines 117-149: the numbers of the spans of the page with the corner of
\* their span
extract_numbers_with_positions(page) ==
    LET spans == Flatten(page)
        found(i) == LET matches == NumberMatches(spans[i].text, 1)
                    IN  [k \in 1..Len(matches) |->
                            [value |-> PyFloat(matches[k]),
                             x |-> spans[i].x, y |-> spans[i].y]]
        kept(n) == Plausible(n.value)
    IN  SelectSeq(Flatten([i \in 1..Len(spans) |-> found(i)]), kept)

\* lines 160-174: the texts of the spans, each followed by a blank, in
\* lower case and stripped
LineText(spans) ==
    Lower(Strip(Flatten([i \in 1..Len(spans) |-> spans[i].text \o <<" ">>])))

\* lines 151-187: one position for every keyword found in a line, at the
\* corner of the first span of the line
find_keyword_positions(page, keywords) ==
    LET hits(i) == LET here(keyword) == Contains(LineText(page[i]), Lower(keyword))
                   IN  [k \in 1..Len(SelectSeq(keywords, here)) |->
                           [keyword |-> SelectSeq(keywords, here)[k],
                            x |-> page[i][1].x, y |-> page[i][1].y]]
    IN  Flatten([i \in 1..Len(page) |-> hits(i)])

\* lines 189-193 give (dx**2 + dy**2) ** 0.5; the model keeps its square
calculate_distance(pos1, pos2) ==
    (pos1.x - pos2.x) * (pos1.x - pos2.x) + (pos1.y - pos2.y) * (pos1.y - pos2.y)

\* distance < limit for a squared distance
Nearer(squared, limit) == squared < limit * limit

\* value >= bound and value <= bound for a float and an int
AtLeast(value, bound) ==
    IF value.neg THEN value.int < 0 - bound \/ (value.int = 0 - bound /\ value.frac = <<>>)
    ELSE value.int >= bound

AtMost(value, bound) ==
    IF value.neg THEN value.int >= 0 - bound
    ELSE value.int < bound \/ (value.int = bound /\ value.frac = <<>>)

\* a variant of Proximity that gives no point, and no cut, beyond 500
ProximityUnbounded(squared) ==
    IF Nearer(squared, 50) THEN 50
    ELSE IF Nearer(squared, 100) THEN 40
    ELSE IF Nearer(squared, 200) THEN 30
    ELSE IF Nearer(squared, 300) THEN 20
    ELSE IF Nearer(squared, 500) THEN 10
    ELSE 0

\* lines 207-218: the points of the distance, -1 where the code returns 0
\* for a number too far away
Proximity(squared) ==
    IF Nearer(squared, 50) THEN 50
    ELSE IF Nearer(squared, 100) THEN 40
    ELSE IF Nearer(squared, 200) THEN 30
    ELSE IF Nearer(squared, 300) THEN 20
    ELSE IF Nearer(squared, 500) THEN 10
    ELSE 0 - 1

\* lines 221-231; min_val * 0.5 and max_val * 1.5 are whole numbers for the
\* three ranges
RangePoints(value, field_name) ==
    LET min_val == VALUE_RANGES(field_name)[1]
        max_val == VALUE_RANGES(field_name)[2]
    IN  IF AtLeast(value, min_val) /\ AtMost(value, max_val) THEN 40
        ELSE IF AtLeast(value, min_val \div 2) /\ AtMost(value, (max_val * 3) \div 2) THEN 15
        ELSE 0 - 50

\* lines 235-246
KeywordPoints(keyword) ==
    IF Contains(keyword, <<"b","r","o","u","g","h","t"," ","f","o","r","w","a","r","d">>) THEN 25
    ELSE IF Contains(keyword, <<"r","e","s","u","l","t"," ","a","m","o","u","n","t","e","d"," ","t","o"," ","s","e","k">>) THEN 25
    ELSE IF Contains(keyword, <<"o","u","t","f","l","o","w">>) THEN 20
    ELSE IF Contains(keyword, <<"f","u","n","d"," ","c","a","p","i","t","a","l">>) THEN 15
    ELSE IF Contains(keyword, <<"r","e","s","u","l","t">>) THEN 15
    ELSE 10

\* lines 195-248
calculate_score(value, field_name, squared, keyword) ==
    LET score == Proximity(squared) + RangePoints(value, field_name)
                 + KeywordPoints(keyword)
    IN  IF Proximity(squared) < 0 THEN 0
        ELSE IF score > 0 THEN score ELSE 0

\* lines 88-100: the pairs whose score is above 0, in the order of the loops
ScoredCandidates(keyword_positions, numbers, field_name) ==
    LET pair(i, j) == [value |-> numbers[j].value,
                       score |-> calculate_score(numbers[j].value, field_name,
                                     calculate_distance(keyword_positions[i], numbers[j]),
                                     keyword_positions[i].keyword)]
        positive(c) == c.score > 0
    IN  SelectSeq(Flatten([i \in 1..Len(keyword_positions) |->
                              [j \in 1..Len(numbers) |-> pair(i, j)]]), positive)

\* lines 52-115 for a document that opens: the value returned, None when
\* the field has no keyword, no keyword is found or no pair scores above 0
extract_from_page(page, field_name) ==
    LET keywords == FIELD_KEYWORDS(field_name)
        numbers == extract_numbers_with_positions(page)
        keyword_positions == find_keyword_positions(page, keywords)
        candidates == ScoredCandidates(keyword_positions, numbers, field_name)
        best == Best([i \in 1..Len(candidates) |-> candidates[i].score])
    IN  IF keywords = <<>> THEN None
        ELSE IF keyword_positions = <<>> THEN None
        ELSE IF candidates = <<>> THEN None
        ELSE candidates[best].value

\* text lines of a Key Ratios page
SampleLines ==
    {<<Span(<<"F","u","n","d"," ","c","a","p","i","t","a","l"," ","b","r","o","u","g","h","t"," ","f","o","r","w","a","r","d">>, 50, 100),
         Span(<<"3","5","7",".","9"," ","3","6","7",".","4">>, 300, 100)>>,
     <<Span(<<"N","e","t"," ","o","u","t","f","l","o","w","s"," ","t","o"," ","t","h","e"," ","n","a","t","i","o","n","a","l"," ","p","e","n","s","i","o","n"," ","s","y","s","t","e","m">>, 50, 120),
         Span(<<"-","4",".","2">>, 300, 120)>>,
     <<Span(<<"N","e","t"," ","r","e","s","u","l","t"," ","f","o","r"," ","t","h","e"," ","p","e","r","i","o","d">>, 50, 140),
         Span(<<"-","1","9",".","3">>, 300, 140)>>,
     <<Span(<<"O","p","e","n","i","n","g"," ","f","u","n","d"," ","c","a","p","i","t","a","l">>, 50, 700),
         Span(<<"2","0","2","0">>, 60, 700)>>,
     <<Span(<<"T","h","e"," ","r","e","s","u","l","t"," ","a","m","o","u","n","t","e","d"," ","t","o"," ","S","E","K">>, 50, 160),
         Span(<<"1","2",".","5"," ","b","i","l","l","i","o","n">>, 560, 160)>>,
     <<Span(<<"N","o","t","e","s"," ","7">>, 50, 400)>>,
     <<Span(<<"N","e","t"," ","r","e","s","u","l","t"," ","f","o","r"," ","t","h","e"," ","y","e","a","r"," ","2","0","1","9">>, 50, 180),
         Span(<<"9","5">>, 200, 180)>>}

SampleFields == {FUNDCAPITALCARRIEDFORWARDLEVEL, NETOUTFLOWSTOTHENATIONALPENSIONSYSTEM,
                 TOTAL, TOTALASSETS}

InitSmart ==
    /\ pc = "smart"
    /\ arg \in [page : UNION {[1..n -> SampleLines] : n \in 0..MaxLines},
                field_name : SampleFields]
    /\ columns = <<>>
    /\ result = None
    /\ TableIdle
    /\ MainIdle

CallExtractFromPage ==
    /\ pc = "smart"
    /\ result' = extract_from_page(arg.page, arg.field_name)
    /\ pc' = "extract_from_page"
    /\ UNCHANGED <<arg, columns, tableVars, mainVars>>

NextSmart == CallExtractFromPage

SpecSmart == InitSmart /\ [][NextSmart]_vars

\* C20: extract_from_page returns the value of the pair of a keyword
\* occurrence and a number whose score is the greatest (the first such pair
\* in the order keyword occurrence, number), the candidates being the pairs
\* nearer than 500 whose score is above 0; it returns None when no keyword
\* of the field occurs on the page and when no pair is a candidate.
C20_BestPairReturned ==
    (pc = "extract_from_page") =>
        LET occurrences == find_keyword_positions(arg.page, FIELD_KEYWORDS(arg.field_name))
            numbers == extract_numbers_with_positions(arg.page)
            score(p) == calculate_score(numbers[p[2]].value, arg.field_name,
                            calculate_distance(occurrences[p[1]], numbers[p[2]]),
                            occurrences[p[1]].keyword)
            pairs == {p \in (1..Len(occurrences)) \X (1..Len(numbers)) :
                         /\ calculate_distance(occurrences[p[1]], numbers[p[2]]) < 500 * 500
                         /\ score(p) > 0}
            before(p, q) == p[1] < q[1] \/ (p[1] = q[1] /\ p[2] < q[2])
            wins(p) == \A q \in pairs :
                          /\ score(q) <= score(p)
                          /\ before(q, p) => score(q) < score(p)
        IN  /\ (pairs = {}) <=> (result = None)
            /\ occurrences = <<>> => result = None
            /\ \A p \in pairs : wins(p) => result = numbers[p[2]].value

\* the page has two occurrences of keywords of the field, the pair of the
\* greatest score is not the first pair, and its value was returned
C20_Witness ==
    /\ pc = "extract_from_page"
    /\ arg.field_name = FUNDCAPITALCARRIEDFORWARDLEVEL
    /\ Len(arg.page) = 2
    /\ Len(find_keyword_positions(arg.page, FIELD_KEYWORDS(arg.field_name))) = 2
    /\ result = PyFloat(<<"3","5","7",".","9">>)
    /\ extract_numbers_with_positions(arg.page)[1].value # result

(***************************************************************************)
(* _calculate_score on bounded values                                      *)
(***************************************************************************)
\* the whole numbers from -MaxValue to MaxValue as floats, for each field
\* with a range, at the distances 0, 250 and 600 from the first keyword of
\* the field
InitScore ==
    /\ pc = "score"
    /\ arg \in [value : {Float(IntVal(n)) : n \in (0 - MaxValue)..MaxValue},
                field_name : {FUNDCAPITALCARRIEDFORWARDLEVEL,
                              NETOUTFLOWSTOTHENATIONALPENSIONSYSTEM, TOTAL},
                squared : {0, 250 * 250, 600 * 600}]
    /\ columns = <<>>
    /\ result = None
    /\ TableIdle
    /\ MainIdle

CallCalculateScore ==
    /\ pc = "score"
    /\ result' = IntVal(calculate_score(arg.value, arg.field_name, arg.squared,
                                        FIELD_KEYWORDS(arg.field_name)[1]))
    /\ pc' = "calculate_score"
    /\ UNCHANGED <<arg, columns, tableVars, mainVars>>

NextScore == CallCalculateScore

SpecScore == InitScore /\ [][NextScore]_vars

\* C21: for a number nearer than 500, the score holds 40 range points when
\* the value is in the expected range of the field, 15 when it is outside
\* the range but no more than half of the bound below the lower bound or
\* above the upper bound, and the penalty of -50 only outside that margin.
C21_MarginAroundRange ==
    (pc = "calculate_score" /\ arg.squared < 500 * 500) =>
        LET min_val == VALUE_RANGES(arg.field_name)[1]
            max_val == VALUE_RANGES(arg.field_name)[2]
            v == IF arg.value.neg THEN 0 - arg.value.int ELSE arg.value.int
            range == IF min_val <= v /\ v <= max_val THEN 40
                     ELSE IF /\ 2 * min_val - Abs(min_val) <= 2 * v
                             /\ 2 * v <= 2 * max_val + Abs(max_val) THEN 15
                     ELSE 0 - 50
            score == Proximity(arg.squared) + range
                     + KeywordPoints(FIELD_KEYWORDS(arg.field_name)[1])
        IN  result = IntVal(IF score > 0 THEN score ELSE 0)

(***************************************************************************)
(* extract_key_ratios on bounded tables                                    *)
(***************************************************************************)
RatioLabels ==
    {<<"F","u","n","d"," ","c","a","p","i","t","a","l"," ","c","a","r","r","i","e","d"," ","f","o","r","w","a","r","d",","," ","S","E","K"," ","b","i","l","l","i","o","n">>,
     <<"F","u","n","d"," ","c","a","p","i","t","a","l"," ","c","a","r","r","i","e","d"," ","f","o","r","w","a","r","d",","," ","S","E","K"," ","b","n">>,
     <<"N","e","t"," ","r","e","s","u","l","t"," ","f","o","r"," ","t","h","e"," ","p","e","r","i","o","d",","," ","S","E","K"," ","b","i","l","l","i","o","n">>}

RatioCells ==
    {<<"3","5","7",".","9">>, <<"3","6","7",".","4">>, <<"3","8","1",".","3">>, <<>>, <<"n","/","a">>}

\* the first table of the Key Ratios page: a label column and three value
\* columns, of which the code reads the first; at most MaxRatioRows rows
InitRatios ==
    /\ pc = "ratios"
    /\ \E rows \in UNION {[1..n -> {Row(l, c) : l \in RatioLabels, c \in RatioCells}] :
                            n \in 0..MaxRatioRows} :
           arg = [shape1 |-> 4, rows |-> rows]
    /\ columns = <<>>
    /\ result = None
    /\ TableIdle
    /\ MainIdle

CallExtractKeyRatiosTable ==
    /\ pc = "ratios"
    /\ result' = DictVal(extract_key_ratios(arg))
    /\ pc' = "extract_key_ratios"
    /\ UNCHANGED <<arg, columns, tableVars, mainVars>>

NextRatios == CallExtractKeyRatiosTable

SpecRatios == InitRatios /\ [][NextRatios]_vars

\* C22: for a Key Ratios table whose row 'Fund capital carried forward,
\* SEK bn' holds 357.9 in its first value column (367.4 and 381.3 in the
\* next ones), extract_key_ratios gives FUNDCAPITALCARRIEDFORWARDLEVEL the
\* value 357.9.
C22_FirstValueOfLabelledRow ==
    (/\ pc = "extract_key_ratios"
     /\ arg.rows = <<Row(<<"F","u","n","d"," ","c","a","p","i","t","a","l"," ","c","a","r","r","i","e","d"," ","f","o","r","w","a","r","d",","," ","S","E","K"," ","b","n">>, <<"3","5","7",".","9">>)>>)
        => /\ FUNDCAPITALCARRIEDFORWARDLEVEL \in DOMAIN result.items
           /\ result.items[FUNDCAPITALCARRIEDFORWARDLEVEL] = PyFloat(<<"3","5","7",".","9">>)

\* C26: when several rows of the table match the same ratio field, the
\* field keeps the value of the first of them whose value is parsed.
C26_FirstMatchingRowKept ==
    (pc = "extract_key_ratios") =>
        \A k \in {FUNDCAPITALCARRIEDFORWARDLEVEL, TOTAL} :
            LET parsed == {i \in 1..Len(arg.rows) :
                             /\ KeyRatioField(FieldName(arg.rows[i].label)) = StrVal(k)
                             /\ clean_number_string(arg.rows[i].cell, TRUE) # None}
            IN  parsed # {} =>
                    /\ k \in DOMAIN result.items
                    /\ result.items[k] = clean_number_string(arg.rows[SetMin(parsed)].cell, TRUE)

(***************************************************************************)
(* main of pdf_parser_enhanced.py                                          *)
(***************************************************************************)
MainStart ==
    /\ pc = "main"
    /\ NumIdle
    /\ TableIdle
    /\ file_idx = 0
    /\ year = 0
    /\ df = None
    /\ all_data = <<>>
    /\ returned = <<>>
    /\ table = None
    /\ check1 = "none"
    /\ check2 = "none"
    /\ calls = <<>>
    /\ returncode = None
    /\ pipeline = "running"

\* a download folder with the files names, in the order glob returns them
Folder(names) ==
    /\ download_folder = StrVal(DownloadFolder)
    /\ pdf_files = [i \in 1..Len(names) |-> Join(DownloadFolder, names[i])]

Init ==
    /\ MainStart
    /\ \/ /\ download_folder = None
          /\ pdf_files = <<>>
          /\ disk = <<>>
       \/ \E names \in DistinctSeqs(SampleNames, MaxPdfs) :
            /\ Folder(names)
            /\ disk \in [Range(pdf_files) -> SampleContents]

otherVars == <<numVars, ncols, idx, row, in_assets_section, assets_found,
               liabilities_found, section, derivSeen, download_folder,
               pdf_files, disk, returncode, pipeline>>

\* lines 631-633: no download folder
NoDownloadFolder ==
    /\ pc = "main"
    /\ download_folder = None
    /\ pc' = "done"
    /\ UNCHANGED <<otherVars, calls, data, file_idx, year, df, all_data, returned,
                   table, check1, check2>>

\* lines 636-641: the folder holds no PDF
NoPdfFiles ==
    /\ pc = "main"
    /\ download_folder # None
    /\ pdf_files = <<>>
    /\ pc' = "done"
    /\ UNCHANGED <<otherVars, calls, data, file_idx, year, df, all_data, returned,
                   table, check1, check2>>

\* line 644: all_data = {}
Glob ==
    /\ pc = "main"
    /\ download_folder # None
    /\ pdf_files # <<>>
    /\ all_data' = <<>>
    /\ pc' = "loop"
    /\ UNCHANGED <<otherVars, calls, data, file_idx, year, df, returned, table,
                   check1, check2>>

\* lines 646-647: the next file of the loop, its year
ExtractYear ==
    /\ pc = "loop"
    /\ file_idx < Len(pdf_files)
    /\ file_idx' = file_idx + 1
    /\ \E now_year \in NowYears :
         year' = extract_year_from_filename(pdf_files[file_idx + 1], now_year)
    /\ data' = EmptyDict
    /\ df' = None
    /\ check1' = "none"
    /\ check2' = "none"
    /\ calls' = <<>>
    /\ pc' = "find_page"
    /\ UNCHANGED <<otherVars, all_data, returned, table>>

\* lines 468-472; fitz.open (line 61) is in no try block, its exception
\* leaves main through the except clause of lines 671-675
FindPage ==
    /\ pc = "find_page"
    /\ pc' = IF ~disk[pdf_files[file_idx]].opens THEN "fatal"
             ELSE IF find_balance_sheet_page_fitz(disk[pdf_files[file_idx]].pages) = None
             THEN "return" ELSE "camelot"
    /\ UNCHANGED <<otherVars, calls, data, file_idx, year, df, all_data, returned,
                   table, check1, check2>>

\* line 477
Camelot ==
    /\ pc = "camelot"
    /\ df' = extract_balance_sheet_with_camelot(disk[pdf_files[file_idx]].lattice,
                                                disk[pdf_files[file_idx]].stream)
    /\ calls' = calls \o CamelotCalls(disk[pdf_files[file_idx]].lattice,
                                      disk[pdf_files[file_idx]].stream)
    /\ pc' = IF df' = None THEN "pymupdf" ELSE "parse"
    /\ UNCHANGED <<otherVars, data, file_idx, year, all_data, returned, table,
                   check1, check2>>

\* lines 480-486
PyMuPDF ==
    /\ pc = "pymupdf"
    /\ df' = extract_balance_sheet_with_pymupdf(disk[pdf_files[file_idx]].pymupdf)
    /\ calls' = Append(calls, "pymupdf")
    /\ pc' = IF df' = None THEN "return" ELSE "parse"
    /\ UNCHANGED <<otherVars, data, file_idx, year, all_data, returned, table,
                   check1, check2>>

\* line 489
ParseTable ==
    /\ pc = "parse"
    /\ data' = parse_balance_sheet_from_table(df)
    /\ pc' = "key_ratios"
    /\ UNCHANGED <<otherVars, calls, file_idx, year, df, all_data, returned, table,
                   check1, check2>>

\* lines 492-497
KeyRatios ==
    /\ pc = "key_ratios"
    /\ data' = Update(data, extract_key_ratios(disk[pdf_files[file_idx]].ratios))
    /\ pc' = IF DOMAIN data' # {} THEN "validate" ELSE "return"
    /\ UNCHANGED <<otherVars, calls, file_idx, year, df, all_data, returned, table,
                   check1, check2>>

\* line 498; an exception leaves main through its except clause
Validate ==
    /\ pc = "validate"
    /\ data' = validate_balance_sheet(data).data
    /\ check1' = validate_balance_sheet(data).check1
    /\ check2' = validate_balance_sheet(data).check2
    /\ pc' = IF validate_balance_sheet(data).raised THEN "fatal" ELSE "return"
    /\ UNCHANGED <<otherVars, calls, file_idx, year, df, all_data, returned, table>>

\* lines 647-654: the dict returned for the file is stored under its year
\* when it is not empty
Store ==
    /\ pc = "return"
    /\ all_data' = IF DOMAIN data # {} THEN SetItem(all_data, year, data)
                   ELSE all_data
    /\ returned' = Append(returned, [year |-> year, data |-> data])
    /\ pc' = "loop"
    /\ UNCHANGED <<otherVars, calls, data, file_idx, year, df, table, check1, check2>>

\* lines 656-658
NoData ==
    /\ pc = "loop"
    /\ file_idx = Len(pdf_files)
    /\ all_data = <<>>
    /\ pc' = "done"
    /\ UNCHANGED <<otherVars, calls, data, file_idx, year, df, all_data, returned,
                   table, check1, check2>>

\* line 661
CreateOutput ==
    /\ pc = "loop"
    /\ file_idx = Len(pdf_files)
    /\ all_data # <<>>
    /\ table' = OutputTable(all_data)
    /\ pc' = "done"
    /\ UNCHANGED <<otherVars, calls, data, file_idx, year, df, all_data, returned,
                   check1, check2>>

\* the process ends: status 0 when main returns, 1 when it raises
Exit ==
    /\ pc \in {"done", "fatal"}
    /\ returncode' = IntVal(IF pc = "fatal" THEN 1 ELSE 0)
    /\ pc' = "exited"
    /\ UNCHANGED <<numVars, tableVars, download_folder, pdf_files, disk,
                   file_idx, year, df, all_data, returned, table, check1,
                   check2, calls, pipeline>>

\* orchestrator.py lines 65-71 and 99-116: run_script on the parser
RunScript ==
    /\ pc = "exited"
    /\ pipeline' = IF returncode # IntVal(0) THEN "failed" ELSE "completed"
    /\ pc' = "reported"
    /\ UNCHANGED <<numVars, tableVars, download_folder, pdf_files, disk,
                   file_idx, year, df, all_data, returned, table, check1,
                   check2, calls, returncode>>

Next ==
    \/ NoDownloadFolder
    \/ NoPdfFiles
    \/ Glob
    \/ ExtractYear
    \/ FindPage
    \/ Camelot
    \/ PyMuPDF
    \/ ParseTable
    \/ KeyRatios
    \/ Validate
    \/ Store
    \/ NoData
    \/ CreateOutput
    \/ Exit
    \/ RunScript

Spec == Init /\ [][Next]_vars

(***************************************************************************)
(* main on a folder of one document                                        *)
(***************************************************************************)
\* the rows a statement prints under label for amounts, a sequence of no
\* or one amount
AmountRows(label, amounts) ==
    [i \in 1..Len(amounts) |-> Row(label, FormatNum(amounts[i], " "))]

\* the rows of a Key Ratios table under label for cells, a sequence of no
\* or one cell
RatioRows(label, cells) == [i \in 1..Len(cells) |-> Row(label, cells[i])]

\* a balance sheet with the four totals that validate_balance_sheet reads
ValidateGrid(assets, liabilities, fund, total) ==
    [shape1 |-> 3,
     rows |-> << Row(<<"A","s","s","e","t","s">>, <<>>) >>
              \o AmountRows(<<"T","o","t","a","l"," ","a","s","s","e","t","s">>, assets)
              \o << Row(<<"F","u","n","d"," ","c","a","p","i","t","a","l"," ","a","n","d"," ","l","i","a","b","i","l","i","t","i","e","s">>, <<>>) >>
              \o AmountRows(<<"T","o","t","a","l"," ","l","i","a","b","i","l","i","t","i","e","s">>, liabilities)
              \o AmountRows(<<"T","o","t","a","l"," ","f","u","n","d"," ","c","a","p","i","t","a","l">>, fund)
              \o AmountRows(<<"T","o","t","a","l"," ","c","a","p","i","t","a","l"," ","a","n","d"," ","l","i","a","b","i","l","i","t","i","e","s">>, total)]

\* a balance sheet with some of five fields
OutputGrid(cash, assets, liabilities, carried, net) ==
    [shape1 |-> 3,
     rows |-> << Row(<<"A","s","s","e","t","s">>, <<>>) >>
              \o AmountRows(<<"C","a","s","h"," ","a","n","d"," ","b","a","n","k"," ","b","a","l","a","n","c","e","s">>, cash)
              \o AmountRows(<<"T","o","t","a","l"," ","a","s","s","e","t","s">>, assets)
              \o << Row(<<"F","u","n","d"," ","c","a","p","i","t","a","l"," ","a","n","d"," ","l","i","a","b","i","l","i","t","i","e","s">>, <<>>) >>
              \o AmountRows(<<"T","o","t","a","l"," ","l","i","a","b","i","l","i","t","i","e","s">>, liabilities)
              \o AmountRows(<<"F","u","n","d"," ","c","a","p","i","t","a","l"," ","c","a","r","r","i","e","d"," ","f","o","r","w","a","r","d">>, carried)
              \o AmountRows(<<"N","e","t"," ","r","e","s","u","l","t"," ","f","o","r"," ","t","h","e"," ","p","e","r","i","o","d">>, net)]

\* a Key Ratios table with some of its three rows
OutputRatios(level, outflows, net) ==
    [shape1 |-> 3,
     rows |-> RatioRows(<<"F","u","n","d"," ","c","a","p","i","t","a","l"," ","c","a","r","r","i","e","d"," ","f","o","r","w","a","r","d",","," ","S","E","K"," ","b","i","l","l","i","o","n">>, level)
              \o RatioRows(<<"N","e","t"," ","o","u","t","f","l","o","w","s"," ","t","o"," ","t","h","e"," ","n","a","t","i","o","n","a","l"," ","p","e","n","s","i","o","n"," ","s","y","s","t","e","m",","," ","S","E","K"," ","b","i","l","l","i","o","n">>, outflows)
              \o RatioRows(<<"N","e","t"," ","r","e","s","u","l","t"," ","f","o","r"," ","t","h","e"," ","p","e","r","i","o","d",","," ","S","E","K"," ","b","i","l","l","i","o","n">>, net)]

\* a folder whose one document has the balance sheet grid and the Key
\* Ratios table ratios
OneDocument(grid, ratios) ==
    /\ MainStart
    /\ Folder(<< <<"A","P","2","_","2","0","2","4",".","p","d","f">> >>)
    /\ disk = (pdf_files[1] :> Content(<<SummaryPage, BalancePage>>, Found(<<grid>>),
                                       Found(<<>>), Found(<<>>), ratios))

InitValidate ==
    \E assets \in {<<>>, <<1000>>},
       liabilities \in {<<>>, <<400>>},
       fund \in {<<>>, <<600>>, <<650>>},
       total \in {<<>>, <<1000>>, <<1100>>, <<1101>>, <<1150>>} :
        OneDocument(ValidateGrid(assets, liabilities, fund, total), None)

InitOutput ==
    \E cash \in {<<>>, <<5670>>},
       assets \in {<<>>, <<362451>>},
       liabilities \in {<<>>, <<4563>>},
       carried \in {<<>>, <<381350>>},
       net \in {<<>>, <<0 - 19262>>},
       level \in {<<>>, << <<"3","5","7",".","9">> >>},
       outflows \in {<<>>, << <<"-","4",".","2">> >>},
       total \in {<<>>, << <<"-","1","9",".","3">> >>} :
        OneDocument(OutputGrid(cash, assets, liabilities, carried, net),
                    OutputRatios(level, outflows, total))

\* the steps of main when Camelot finds the balance sheet
NextDocument ==
    \/ Glob
    \/ ExtractYear
    \/ FindPage
    \/ Camelot
    \/ ParseTable
    \/ KeyRatios
    \/ Validate
    \/ Store
    \/ NoData
    \/ CreateOutput
    \/ Exit
    \/ RunScript

SpecValidate == InitValidate /\ [][NextDocument]_vars

SpecOutput == InitOutput /\ [][NextDocument]_vars

(***************************************************************************)
(* Properties of create_output and main                                    *)
(***************************************************************************)
\* the catalogue field of each data column, columns 2 to 21 in order
ColumnField ==
    << FUNDCAPITALCARRIEDFORWARDLEVEL,
       NETOUTFLOWSTOTHENATIONALPENSIONSYSTEM,
       TOTAL,
       EQUITIESANDPARTICIPATIONSLISTED,
       EQUITIESANDPARTICIPATIONSUNLISTED,
       BONDSANDOTHERFIXEDINCOMESECURITIES,
       DERIVATIVEINSTRUMENTS,
       CASHANDBANKBALANCES,
       OTHERASSETS,
       PREPAIDEXPENSESANDACCRUEDINCOME,
       TOTALASSETS,
       DERIVATIVEINSTRUMENTSLIABILITIES,
       OTHERLIABILITIES,
       DEFERREDINCOMEANDACCRUEDEXPENSES,
       TOTALLIABILITIES,
       FUNDCAPITALCARRIEDFORWARD,
       NETPAYMENTSTOTHENATIONALPENSIONSYSTEM,
       NETRESULTFORTHEPERIOD,
       TOTALFUNDCAPITAL,
       TOTALFUNDCAPITALANDLIABILITIES >>

\* the cell of column c in the row built for the dict d
Expected(d, c) == Get(d, ColumnField[c - 1])

\* C3: each of the 20 data columns of the table holds the value of the
\* catalogue field the column names, or is absent when that field was not
\* extracted; the LEVEL column holds FUNDCAPITALCARRIEDFORWARDLEVEL and the
\* FLOW column of the same name holds FUNDCAPITALCARRIEDFORWARD.
C3_ColumnsHoldTheirField ==
    (pc = "done" /\ table # None) =>
        /\ Len(table.rows) = Len(all_data)
        /\ \A r \in 1..Len(table.rows) :
             /\ \A c \in 2..Len(OUTPUT_HEADERS) :
                  table.rows[r][c] = Expected(all_data[r].data, c)
             /\ table.rows[r][2] = Get(all_data[r].data, FUNDCAPITALCARRIEDFORWARDLEVEL)
             /\ table.rows[r][17] = Get(all_data[r].data, FUNDCAPITALCARRIEDFORWARD)

\* a table whose row has both fund capital values, both net results and
\* an absent field
C3_Witness ==
    /\ pc = "done"
    /\ table # None
    /\ {FUNDCAPITALCARRIEDFORWARDLEVEL, FUNDCAPITALCARRIEDFORWARD, TOTAL,
        NETRESULTFORTHEPERIOD} \subseteq DOMAIN all_data[1].data
    /\ TOTALASSETS \notin DOMAIN all_data[1].data
    /\ table.rows[1][2] # table.rows[1][17]

\* C4: every table has the 21 columns of OUTPUT_HEADERS in their order, the
\* year in the first; each row has 21 cells, and the cell of a field that
\* was not extracted is absent, not 0.
C4_FixedColumns ==
    (table # None) =>
        /\ table.columns = OUTPUT_HEADERS
        /\ Len(table.columns) = 21
        /\ table.columns[1] = Unnamed0
        /\ \A r \in 1..Len(table.rows) :
             /\ Len(table.rows[r]) = 21
             /\ table.rows[r][1] = IntVal(all_data[r].year)
             /\ \A c \in 2..21 :
                  ColumnField[c - 1] \notin DOMAIN all_data[r].data
                      => table.rows[r][c] = None

\* a table of two years, one with a field the other lacks
C4_Witness ==
    /\ table # None
    /\ Len(table.rows) = 2
    /\ table.rows[1][1] # table.rows[2][1]
    /\ \E c \in 2..21 : table.rows[1][c] # None /\ table.rows[2][c] = None

\* C5: the rows of the final table are in ascending order of year.
C5_RowsAscendingByYear ==
    (pc = "done" /\ table # None) =>
        \A r \in 1..(Len(table.rows) - 1) :
            table.rows[r][1].v < table.rows[r + 1][1].v

\* the files of returned that gave at least one field
Yielding == {i \in 1..Len(returned) : DOMAIN returned[i].data # {}}

\* C6: the table has one row per distinct year among the documents that
\* gave a field, and the row of a year holds the fields of the document
\* processed last for that year and nothing of an earlier one.
C6_LaterDocumentOverwrites ==
    (pc = "done" /\ table # None) =>
        /\ \A r, s \in 1..Len(table.rows) :
             r # s => table.rows[r][1] # table.rows[s][1]
        /\ {table.rows[r][1] : r \in 1..Len(table.rows)}
             = {IntVal(returned[i].year) : i \in Yielding}
        /\ \A r \in 1..Len(table.rows) :
             LET last == SetMax({i \in Yielding :
                                   IntVal(returned[i].year) = table.rows[r][1]})
             IN  \A c \in 2..21 :
                   table.rows[r][c] = Expected(returned[last].data, c)

\* two documents of the same year gave fields, the earlier one a field the
\* later one lacks
C6_Witness ==
    /\ pc = "done"
    /\ table # None
    /\ \E i, j \in Yielding :
         /\ i < j
         /\ returned[i].year = returned[j].year
         /\ DOMAIN returned[i].data \ DOMAIN returned[j].data # {}

\* the column of the FLOW header of a field
FlowColumn(field) ==
    CHOOSE c \in 1..Len(OUTPUT_HEADERS) :
        OUTPUT_HEADERS[c] = <<"A","P","2",".">> \o field \o <<".","F","L","O","W",".","N","O","N","E",".","H",".","1","@","A","P","2">>

ValidatedFields ==
    {TOTALASSETS, TOTALLIABILITIES, TOTALFUNDCAPITAL, TOTALFUNDCAPITALANDLIABILITIES}

\* C7: validate_balance_sheet changes no value and raises nothing, whatever
\* fields are present; the validated dict is stored under its year and its
\* row is in the table, whether the checks passed or failed.
C7_ValidationAdvisory ==
    [][ /\ pc = "validate" => (data' = data /\ pc' = "return")
        /\ (pc = "return" /\ DOMAIN data # {}) =>
              [year |-> year, data |-> data] \in Range(all_data')
        /\ (pc = "loop" /\ pc' = "done" /\ Yielding # {}) =>
              /\ table' # None
              /\ \A i \in 1..Len(all_data) :
                   /\ table'.rows[i][1] = IntVal(all_data[i].year)
                   /\ \A f \in ValidatedFields :
                        table'.rows[i][FlowColumn(f)] = Get(all_data[i].data, f) ]_vars

\* a document whose two checks failed has its row in the table
C7_Witness ==
    /\ pc = "done"
    /\ check1 = "failed"
    /\ check2 = "failed"
    /\ table # None
    /\ table.rows[1][1] = IntVal(year)
    /\ table.rows[1][FlowColumn(TOTALASSETS)] = data[TOTALASSETS]

\* C8: the assets check is evaluated exactly when TOTALASSETS and
\* TOTALFUNDCAPITALANDLIABILITIES are present, the fund capital check
\* exactly when TOTALFUNDCAPITAL, TOTALLIABILITIES and
\* TOTALFUNDCAPITALANDLIABILITIES are present; an evaluated check passes
\* exactly when the absolute difference is at most 100.
C8_ChecksAndTolerance ==
    (pc = "return" /\ DOMAIN data # {}) =>
        LET has1 == {TOTALASSETS, TOTALFUNDCAPITALANDLIABILITIES} \subseteq DOMAIN data
            has2 == {TOTALFUNDCAPITAL, TOTALLIABILITIES,
                     TOTALFUNDCAPITALANDLIABILITIES} \subseteq DOMAIN data
            diff1 == data[TOTALASSETS].v - data[TOTALFUNDCAPITALANDLIABILITIES].v
            diff2 == data[TOTALFUNDCAPITAL].v + data[TOTALLIABILITIES].v
                     - data[TOTALFUNDCAPITALANDLIABILITIES].v
        IN  /\ check1 = (IF ~has1 THEN "skipped"
                         ELSE IF diff1 \in (0 - 100)..100 THEN "passed"
                         ELSE "failed")
            /\ check2 = (IF ~has2 THEN "skipped"
                         ELSE IF diff2 \in (0 - 100)..100 THEN "passed"
                         ELSE "failed")

\* a difference of 150 was checked and failed, a difference of exactly 100
\* was checked and passed
C8_Witness ==
    /\ pc = "return"
    /\ check1 = "failed"
    /\ data[TOTALFUNDCAPITALANDLIABILITIES].v - data[TOTALASSETS].v = 150
    /\ check2 = "passed"
    /\ data[TOTALFUNDCAPITALANDLIABILITIES].v
         - (data[TOTALFUNDCAPITAL].v + data[TOTALLIABILITIES].v) = 100

\* C13: the stream read of Camelot runs only when the lattice read found no
\* table, and the table handed to parse_balance_sheet_from_table is one
\* table of the read of the last strategy run (lattice, stream or PyMuPDF):
\* the tables of two strategies are never put together
C13_OneStrategy ==
    pc \in {"pymupdf", "parse", "key_ratios"} =>
        LET content == disk[pdf_files[file_idx]]
            last == calls[Len(calls)]
            read == IF last = "lattice" THEN content.lattice
                    ELSE IF last = "stream" THEN content.stream
                    ELSE content.pymupdf
        IN  /\ calls \in {<<"lattice">>, <<"lattice", "stream">>,
                          <<"lattice", "pymupdf">>,
                          <<"lattice", "stream", "pymupdf">>}
            /\ (\E i \in 1..Len(calls) : calls[i] = "stream") =>
                   (~content.lattice.raises /\ Len(content.lattice.tables) = 0)
            /\ (pc # "pymupdf") =>
                   (~read.raises /\ \E i \in 1..Len(read.tables) : df = read.tables[i])

\* a table of the stream read is parsed after the lattice read found none
C13_Witness ==
    /\ pc = "parse"
    /\ calls = <<"lattice", "stream">>
    /\ df = SmallGrid

\* C15: when a document has a balance sheet page and no table of it reaches
\* the score of 30, parse_balance_sheet_adaptive returns without a field only
\* after the strategies that follow the tables, raw-text line scanning among
\* them, have been run
C15_AllFallbacksTried ==
    (/\ pc = "return"
     /\ disk[pdf_files[file_idx]].opens
     /\ find_balance_sheet_page_fitz(disk[pdf_files[file_idx]].pages) # None
     /\ df = None)
        => /\ DOMAIN data = {}
           /\ \E i \in 1..Len(calls) : calls[i] = "pymupdf"
           /\ \E i \in 1..Len(calls) : calls[i] = "text"

\* C16: a document that cannot be opened is absorbed: the run goes on to the
\* end of the list of documents and main returns
C16_UnreadableDocumentAbsorbed ==
    (/\ pc \in {"exited", "reported"}
     /\ \E i \in 1..Len(pdf_files) : ~disk[pdf_files[i]].opens)
        => /\ returncode = IntVal(0)
           /\ Len(returned) = Len(pdf_files)

\* C17: a run without a download folder, without a document, or in which no
\* document gave a field ends with a failure status and the orchestrator
\* does not report the pipeline as completed
C17_EmptyRunFails ==
    (pc \in {"exited", "reported"} /\ all_data = <<>>)
        => /\ returncode # IntVal(0)
           /\ pc = "reported" => pipeline = "failed"

(***************************************************************************)
(* orchestrator.py: the two steps of the pipeline                          *)
(***************************************************************************)
\* orchestrator.py line 114, ap2_scraper.py line 308, pdf_parser_enhanced.py
\* line 580: the file the pipeline names as its output
LatestFile == "output/latest/AP2_Financial_Data_latest.xlsx"

\* the ways a script started by subprocess.run can go, by what it finds
\* under downloads/: the interpreter cannot be started, the script file is
\* missing, main returns early (ap2_scraper.py lines 366-378 and 397-399,
\* pdf_parser_enhanced.py lines 631-641 and 656-658), main returns after
\* create_output, main raises before or after the file is saved, the
\* process is killed
ScriptPaths(folder) ==
    {"cannot_launch", "missing_script", "killed"}
    \cup (CASE folder = "none" -> {"no_folder"}
            [] folder = "empty" -> {"no_pdfs"}
            [] OTHER -> {"no_data", "created", "fatal", "fatal_after_save"})

\* orchestrator.py lines 47-52: what subprocess.run gives for a script that
\* goes the way path: an exception when the interpreter cannot be started,
\* else the return code (2 when python cannot open the script, 1 when main
\* raises, -9 when the process is killed, 0 when main returns)
ScriptStatus(path) ==
    CASE path = "cannot_launch" -> [t |-> "OSError"]
      [] path = "missing_script" -> IntVal(2)
      [] path \in {"fatal", "fatal_after_save"} -> IntVal(1)
      [] path = "killed" -> IntVal(0 - 9)
      [] OTHER -> IntVal(0)

\* ap2_scraper.py lines 300-311, pdf_parser_enhanced.py lines 571-602: the
\* script has saved the latest file
ScriptSaves(path) == path \in {"created", "fatal_after_save"}

\* a variant of run_script that fails only on the return code 1
run_scriptStatusOne(outcome) == outcome # IntVal(1)

\* orchestrator.py lines 45-75: run_script returns False when
\* subprocess.run raises and when the return code is not 0
run_script(outcome) == outcome = IntVal(0)

\* orchestrator.py lines 45-52 with the file system: the files after the
\* script has run
DiskAfter(files, script, path) ==
    IF ScriptSaves(path)
    THEN [files EXCEPT ![LatestFile] = [writer |-> script, run |-> "this"]]
    ELSE files

\* the orchestrator is started: the folder under downloads/ is absent,
\* empty or holds PDFs, and the latest file is absent or left by an earlier
\* run of either script
InitOrchestrator ==
    /\ pc = "step1"
    /\ \E folder \in {"none", "empty", "pdfs"} :
         arg \in [folder : {folder},
                  scraper : ScriptPaths(folder),
                  parser : ScriptPaths(folder)]
    /\ disk \in [{LatestFile} ->
                    {None} \cup [writer : {"ap2_scraper.py", "pdf_parser_enhanced.py"},
                                 run : {"earlier"}]]
    /\ columns = <<>>
    /\ result = None
    /\ TableIdle
    /\ download_folder = None
    /\ pdf_files = <<>>
    /\ file_idx = 0
    /\ year = 0
    /\ df = None
    /\ all_data = <<>>
    /\ returned = <<>>
    /\ table = None
    /\ check1 = "none"
    /\ check2 = "none"
    /\ calls = <<>>
    /\ returncode = None
    /\ pipeline = "running"

\* orchestrator.py lines 87-94: step 1 runs ap2_scraper.py; the process
\* exits with 1 when run_script returns False
Step1 ==
    /\ pc = "step1"
    /\ returncode' = ScriptStatus(arg.scraper)
    /\ calls' = Append(calls, [script |-> "ap2_scraper.py",
                               outcome |-> ScriptStatus(arg.scraper)])
    /\ disk' = DiskAfter(disk, "ap2_scraper.py", arg.scraper)
    /\ IF run_script(ScriptStatus(arg.scraper))
       THEN /\ pc' = "step2"
            /\ UNCHANGED <<pipeline, result>>
       ELSE /\ pc' = "exited"
            /\ pipeline' = "failed at step 1"
            /\ result' = IntVal(1)
    /\ UNCHANGED <<columns, arg, tableVars, download_folder, pdf_files, file_idx,
                   year, df, all_data, returned, table, check1, check2>>

\* orchestrator.py lines 96-104: step 2 runs pdf_parser_enhanced.py
Step2 ==
    /\ pc = "step2"
    /\ returncode' = ScriptStatus(arg.parser)
    /\ calls' = Append(calls, [script |-> "pdf_parser_enhanced.py",
                               outcome |-> ScriptStatus(arg.parser)])
    /\ disk' = DiskAfter(disk, "pdf_parser_enhanced.py", arg.parser)
    /\ IF run_script(ScriptStatus(arg.parser))
       THEN /\ pc' = "success"
            /\ UNCHANGED <<pipeline, result>>
       ELSE /\ pc' = "exited"
            /\ pipeline' = "failed at step 2"
            /\ result' = IntVal(1)
    /\ UNCHANGED <<columns, arg, tableVars, download_folder, pdf_files, file_idx,
                   year, df, all_data, returned, table, check1, check2>>

\* orchestrator.py lines 106-116: the success report; main returns and the
\* process exits with 0
Success ==
    /\ pc = "success"
    /\ pipeline' = "completed"
    /\ result' = IntVal(0)
    /\ pc' = "exited"
    /\ UNCHANGED <<columns, arg, tableVars, download_folder, pdf_files, file_idx,
                   year, df, all_data, returned, table, check1, check2,
                   disk, calls, returncode>>

NextOrchestrator == Step1 \/ Step2 \/ Success

SpecOrchestrator == InitOrchestrator /\ [][NextOrchestrator]_vars

\* C29: the parser is started only as the second script, after
\* ap2_scraper.py has ended with return code 0; once a script has ended
\* with another return code or could not be started, the orchestrator has
\* exited with status 1 and the pipeline is not reported as completed.
C29_StepsInOrder ==
    /\ \A i \in 1..Len(calls) :
          calls[i].script = "pdf_parser_enhanced.py"
              => /\ i = 2
                 /\ calls[1] = [script |-> "ap2_scraper.py", outcome |-> IntVal(0)]
    /\ (\E i \in 1..Len(calls) : calls[i].outcome # IntVal(0))
          => /\ pc = "exited"
             /\ result = IntVal(1)
             /\ pipeline # "completed"

\* the parser could not be started after a scraper that ended with 0
C29_Witness ==
    /\ Len(calls) = 2
    /\ calls[1].outcome = IntVal(0)
    /\ calls[2] = [script |-> "pdf_parser_enhanced.py", outcome |-> [t |-> "OSError"]]
    /\ pc = "exited"
    /\ result = IntVal(1)
    /\ pipeline = "failed at step 2"

\* C30: when the orchestrator reports the pipeline as completed, the latest
\* file was saved by pdf_parser_enhanced.py during this run.
C30_OutputWrittenByParser ==
    pipeline = "completed" =>
        disk[LatestFile] = [writer |-> "pdf_parser_enhanced.py", run |-> "this"]

(***************************************************************************)
(* create_output of ap2_scraper.py and of pdf_parser.py                    *)
(***************************************************************************)
\* ap2_scraper.py lines 135-204: the keys of field_patterns in the order of
\* the dict literal, the order in which line 221 inserts them into data
ScraperFieldOrder ==
    <<EQUITIESANDPARTICIPATIONSLISTED,
      EQUITIESANDPARTICIPATIONSUNLISTED,
      BONDSANDOTHERFIXEDINCOMESECURITIES,
      DERIVATIVEINSTRUMENTS,
      CASHANDBANKBALANCES,
      OTHERASSETS,
      PREPAIDEXPENSESANDACCRUEDINCOME,
      TOTALASSETS,
      DERIVATIVEINSTRUMENTSLIABILITIES,
      OTHERLIABILITIES,
      DEFERREDINCOMEANDACCRUEDEXPENSES,
      TOTALLIABILITIES,
      FUNDCAPITALCARRIEDFORWARD,
      NETPAYMENTSTOTHENATIONALPENSIONSYSTEM,
      NETRESULTFORTHEPERIOD,
      TOTALFUNDCAPITAL,
      TOTALFUNDCAPITALANDLIABILITIES>>

\* pdf_parser.py lines 90-197: the keys parse_balance_sheet_from_text
\* assigns, each at the first line of the page that names it
ParserFields ==
    {EQUITIESANDPARTICIPATIONSLISTED, EQUITIESANDPARTICIPATIONSUNLISTED,
     BONDSANDOTHERFIXEDINCOMESECURITIES, DERIVATIVEINSTRUMENTS,
     CASHANDBANKBALANCES, TOTALASSETS, DERIVATIVEINSTRUMENTSLIABILITIES,
     TOTALLIABILITIES, FUNDCAPITALCARRIEDFORWARD,
     NETPAYMENTSTOTHENATIONALPENSIONSYSTEM, NETRESULTFORTHEPERIOD,
     TOTALFUNDCAPITAL}

\* ap2_scraper.py lines 285-293, pdf_parser.py lines 222-228: the value of
\* the first item of data, in insertion order, whose key is a substring of
\* the header; None when there is none
MatchedValue(items, header) ==
    LET hits == {i \in 1..Len(items) : Contains(header, items[i].key)}
    IN  IF hits = {} THEN None ELSE items[SetMin(hits)].value

\* ap2_scraper.py lines 281-295, pdf_parser.py lines 219-229: the row dict
\* of one year, data given as its items in insertion order
ScraperRowDict(y, items) ==
    [header \in Range(Tail(OUTPUT_HEADERS)) |-> MatchedValue(items, header)]
    @@ (Unnamed0 :> IntVal(y))

\* ap2_scraper.py lines 279-298, pdf_parser.py lines 217-232, for all_data
\* of one year
ScraperOutputTable(y, items) ==
    DataFrame(<<ScraperRowDict(y, items)>>, OUTPUT_HEADERS)

\* the dicts of at most MaxItems fields with values 1 and 2: the one
\* ap2_scraper.py builds holds its keys in the order of field_patterns, the
\* one pdf_parser.py builds holds them in the order of the lines of the page
InitScraperOutput ==
    /\ pc = "create_output"
    /\ \E n \in 0..MaxItems :
         \E items \in [1..n -> [key : Range(ScraperFieldOrder),
                                value : {IntVal(1), IntVal(2)}]] :
            /\ \A i, j \in 1..n : i # j => items[i].key # items[j].key
            /\ \/ /\ \A i, j \in 1..n :
                       i < j => \E a, b \in 1..Len(ScraperFieldOrder) :
                                   /\ a < b
                                   /\ ScraperFieldOrder[a] = items[i].key
                                   /\ ScraperFieldOrder[b] = items[j].key
                  /\ arg = [script |-> "ap2_scraper.py", year |-> 2020,
                            items |-> items]
               \/ /\ \A i \in 1..n : items[i].key \in ParserFields
                  /\ arg = [script |-> "pdf_parser.py", year |-> 2020,
                            items |-> items]
    /\ columns = <<>>
    /\ result = None
    /\ TableIdle
    /\ MainIdle

\* ap2_scraper.py lines 273-298
CallScraperCreateOutput ==
    /\ pc = "create_output"
    /\ arg.script = "ap2_scraper.py"
    /\ result' = ScraperOutputTable(arg.year, arg.items)
    /\ pc' = "ap2_scraper.create_output"
    /\ UNCHANGED <<arg, columns, tableVars, mainVars>>

\* pdf_parser.py lines 211-232
CallParserCreateOutput ==
    /\ pc = "create_output"
    /\ arg.script = "pdf_parser.py"
    /\ result' = ScraperOutputTable(arg.year, arg.items)
    /\ pc' = "pdf_parser.create_output"
    /\ UNCHANGED <<arg, columns, tableVars, mainVars>>

NextScraperOutput == CallScraperCreateOutput \/ CallParserCreateOutput

SpecScraperOutput == InitScraperOutput /\ [][NextScraperOutput]_vars

\* C28: in the table built by create_output of ap2_scraper.py and of
\* pdf_parser.py, the cell of every column after the year holds the value
\* data has for the catalogue field named in the header of the column
\* (FUNDCAPITALCARRIEDFORWARDLEVEL for the LEVEL column), and is empty when
\* data has no such field: it never holds the value of another field.
C28_ColumnHoldsItsField ==
    pc \in {"ap2_scraper.create_output", "pdf_parser.create_output"} =>
        \A c \in 2..Len(OUTPUT_HEADERS) :
            LET named == HeaderFields[OUTPUT_HEADERS[c]].s
                own == {i \in 1..Len(arg.items) : arg.items[i].key = named}
            IN  result.rows[1][c] =
                    IF own = {} THEN None ELSE arg.items[SetMin(own)].value

(***************************************************************************)
(* parse_balance_sheet_from_table on bounded grids                         *)
(***************************************************************************)
\* the grids of at most MaxGridRows rows over TableLabels and TableCells,
\* with one column or three
InitGrid ==
    /\ pc = "grid"
    /\ arg \in [shape1 : {1, 3},
                rows : UNION {[1..n -> [label : TableLabels, cell : TableCells]] :
                                n \in 0..MaxGridRows}]
    /\ columns = <<>>
    /\ result = None
    /\ TableIdle
    /\ MainIdle

CallParseTable ==
    /\ pc = "grid"
    /\ result' = DictVal(parse_balance_sheet_from_table(arg))
    /\ pc' = "parse_balance_sheet_from_table"
    /\ UNCHANGED <<arg, columns, tableVars, mainVars>>

NextGrid == CallParseTable

SpecGrid == InitGrid /\ [][NextGrid]_vars

\* C25: a row whose label matches a field that is still to be extracted but
\* whose value cell is not numeric changes nothing in the dict (the field
\* stays absent, the populated fields keep their values), and the field is
\* populated by the first later row with the same label, in the same
\* section, that carries a numeric value.
C25_NonNumericRowSkipped ==
    pc = "parse_balance_sheet_from_table" =>
        \A k \in 1..Len(arg.rows) :
            LET before == ParseStateAfter(ParseStart, arg.shape1,
                                          SubSeq(arg.rows, 1, k - 1))
                after == ParseStateAfter(ParseStart, arg.shape1,
                                         SubSeq(arg.rows, 1, k))
                field_name == FieldName(arg.rows[k].label)
                cand == Candidates(before.data, before.in_assets_section, field_name)
            IN  ( /\ ~IsHeader(field_name)
                  /\ cand # {}
                  /\ arg.shape1 >= 2
                  /\ clean_number_string(arg.rows[k].cell, FALSE) = None )
                => /\ after.data = before.data
                   /\ FieldOrder[SetMin(cand)] \notin DOMAIN after.data
                   /\ \A j \in (k + 1)..Len(arg.rows) :
                        LET later == ParseStateAfter(ParseStart, arg.shape1,
                                                     SubSeq(arg.rows, 1, j - 1))
                            value == clean_number_string(arg.rows[j].cell, FALSE)
                        IN  ( /\ arg.rows[j].label = arg.rows[k].label
                              /\ later.in_assets_section = before.in_assets_section
                              /\ FieldOrder[SetMin(cand)] \notin DOMAIN later.data
                              /\ value # None )
                            => /\ FieldOrder[SetMin(cand)] \in DOMAIN result.items
                               /\ result.items[FieldOrder[SetMin(cand)]] = value

\* a 'Derivative instruments' row with a dash, then one with 1 000:
\* the second row has populated the field
C25_Witness ==
    /\ pc = "parse_balance_sheet_from_table"
    /\ arg.shape1 = 3
    /\ Len(arg.rows) = 2
    /\ arg.rows[1].label = StrVal(<<"D","e","r","i","v","a","t","i","v","e"," ","i","n","s","t","r","u","m","e","n","t","s">>)
    /\ arg.rows[1].cell = StrVal(<<"-">>)
    /\ arg.rows[2].label = arg.rows[1].label
    /\ arg.rows[2].cell = StrVal(<<"1"," ","0","0","0">>)
    /\ DERIVATIVEINSTRUMENTS \in DOMAIN result.items
    /\ result.items[DERIVATIVEINSTRUMENTS] = clean_number_string(arg.rows[2].cell, FALSE)

\* C23: the parser starts in the ASSETS section; the section changes only
\* on a row whose label is exactly 'assets', 'liabilities', 'fund capital
\* and liabilities' or 'fund capital'; such a row populates no field,
\* whatever its value cell holds, and a row with another label leaves the
\* section as it is.
C23_SectionChangesOnHeadersOnly ==
    /\ (idx = 0 => (section = "ASSETS" /\ in_assets_section))
    /\ [][(idx' = idx + 1) =>
            /\ (section' # section \/ in_assets_section' # in_assets_section)
                   => IsHeader(FieldName(row'.label))
            /\ IsHeader(FieldName(row'.label)) => data' = data
            /\ in_assets_section' = (section' = "ASSETS")]_vars

\* a 'Fund capital' row with a numeric cell has changed the section and
\* populated nothing
C23_Witness ==
    /\ idx = 1
    /\ ncols = 3
    /\ row = [label |-> StrVal(<<"F","u","n","d"," ","c","a","p","i","t","a","l">>),
              cell |-> StrVal(<<"1"," ","0","0","0">>)]
    /\ section = "FUND_CAPITAL"
    /\ ~in_assets_section
    /\ DOMAIN data = {}

\* C24: DERIVATIVEINSTRUMENTS is populated only by a row processed while
\* the section is ASSETS, and DERIVATIVEINSTRUMENTSLIABILITIES only by a
\* row processed while the section is LIABILITIES.
C24_DerivativesBySection ==
    [][/\ (DERIVATIVEINSTRUMENTS \notin DOMAIN data
           /\ DERIVATIVEINSTRUMENTS \in DOMAIN data') => section = "ASSETS"
       /\ (DERIVATIVEINSTRUMENTSLIABILITIES \notin DOMAIN data
           /\ DERIVATIVEINSTRUMENTSLIABILITIES \in DOMAIN data')
              => section = "LIABILITIES"]_vars

\* C27: a row labelled 'total fund capital and liabilities' never populates
\* TOTALFUNDCAPITAL.
C27_TotalRowNotFundCapital ==
    [][(/\ idx' = idx + 1
        /\ FieldName(row'.label) = <<"t","o","t","a","l"," ","f","u","n","d"," ","c","a","p","i","t","a","l"," ","a","n","d"," ","l","i","a","b","i","l","i","t","i","e","s">>)
           => (TOTALFUNDCAPITAL \in DOMAIN data'
                  => (/\ TOTALFUNDCAPITAL \in DOMAIN data
                      /\ data'[TOTALFUNDCAPITAL] = data[TOTALFUNDCAPITAL]))]_vars

====
